---- MODULE Spec2Model ----
(***************************************************************************)
(* Cast bridge: the WebRTC signaling relay (webrtc-signaling.ts), the      *)
(* orchestrator's callback maps (index.ts) and the CastV2 per-connection   *)
(* handler (castv2-server.ts), as one state machine.                       *)
(*                                                                         *)
(* An optional value (a field that may be undefined) is a sequence of      *)
(* length 0 or 1: None is <<>>, Some(x) is <<x>>.  A JavaScript Map is a   *)
(* function whose DOMAIN is the set of keys present.                       *)
(***************************************************************************)
EXTENDS Integers, Sequences, FiniteSets, TLC

\* ------------------------------------------------------------------ bounds

\* candidate objects handed to handleSenderCandidate in one run
MaxCands == 2
\* reaper ticks in one run
MaxTicks == 6
\* CastV2 messages dispatched in one run
MaxCastMsgs == 2
\* frames a sender writes on one connection
MaxFrames == 3
\* sendCommand calls on the WebSocket server
MaxWsCmds == 2
\* pings counted per WebSocket
MaxPings == 2
\* operations on the relay's API in one run, where a specification counts them
MaxRelayOps == 2
\* instants per reaper interval at which an operation can happen
StepsPerTick == 2
\* the most commands written to one WebSocket while custom senders signal
MaxWrites == 3

\* ------------------------------------------------------- program constants

SESSION_TIMEOUT_MS == 60000
REAP_INTERVAL_MS == 15000

NS_CONNECTION == "urn:x-cast:com.google.cast.tp.connection"
NS_HEARTBEAT == "urn:x-cast:com.google.cast.tp.heartbeat"
NS_RECEIVER == "urn:x-cast:com.google.cast.receiver"
NS_MEDIA == "urn:x-cast:com.google.cast.media"
NS_WEBRTC == "urn:x-cast:com.google.cast.webrtc"
NS_REMOTING == "urn:x-cast:com.google.cast.remoting"

\* ------------------------------------------------------------- input sets

SessionIds == {"s1", "s2"}
Sdps == {"sdpA", "sdpB"}
Sources == {"cast", "custom"}
DisplayCands == {"dc1"}

None == <<>>
Some(x) == <<x>>

TimeStep == REAP_INTERVAL_MS \div StepsPerTick
MaxTime == MaxTicks * REAP_INTERVAL_MS

VARIABLES
  sessions,        \* webrtc-signaling.ts: Map<string, SignalingSession>
  now,             \* Date.now(), ms since the relay was created
  nextReap,        \* the time at which reapInterval fires next
  accepted,        \* per session id: the candidates its current session took, in arrival order
  delivered,       \* per session id: the candidates sent to the display for its current session
  dropped,         \* candidates that were buffered in a session when it was removed
  out,             \* what the last handler did, in the order it did it
  lastOp,          \* the handler that ran last, with its arguments
  reaped,          \* ids whose session the reaper deleted and no offer re-created
  nCands,          \* candidate objects received so far (the next one is nCands + 1)
  nOps,            \* relay operations so far, counted up to MaxRelayOps
  castAnswerCallbacks,     \* index.ts: Map<string, (sdp) => void>
  castCandidateCallbacks,  \* index.ts: Map<string, (candidate) => void>
  conns,           \* per CastV2 connection: sessionId, mediaState, recvBuf, recvOffset, destroyed
  loads,           \* per CastV2 connection: media LOAD messages dispatched so far
  nCastMsgs,       \* CastV2 messages dispatched so far
  stopped,         \* session ids whose connection sent an OFFER, then a remoting STOP,
                   \* and no OFFER since
  wire,            \* per CastV2 connection: bytes the sender wrote that are not yet delivered
  sentFrames,      \* per CastV2 connection: the frames the sender wrote, in order
  consumed,        \* per CastV2 connection: the frame bodies the read loop took, with what became of each
  crashed,         \* an exception left a handler uncaught: the process is gone
  tvClient,        \* ws-server: the WebSocket in the display slot, or none
  wsClients,       \* ws-server: per WebSocket its readyState, whether its socket is
                   \* destroyed, and its handler's role and senderId
  aliveSet,        \* ws-server: WeakSet<WebSocket>
  responded,       \* the WebSockets that connected or sent a pong since the last tick
  pingsSent,       \* per WebSocket: the pings written to it, counted up to MaxPings
  senderClients,   \* ws-server: Map<string, WebSocket>
  wsReceived,      \* per WebSocket: the commands written to it, in order
  displaced,       \* the WebSockets the server closed to give their slot to a new one
  nWsCmds,         \* sendCommand calls so far (the next command is nWsCmds + 1)
  awaiting         \* the sessions whose offer went to the display with no answer
                   \* of the display for them since

orchVars == <<castAnswerCallbacks, castCandidateCallbacks>>
vars == <<sessions, now, nextReap, accepted, delivered, dropped, out, lastOp, reaped,
          nCands, nOps, castAnswerCallbacks,
          castCandidateCallbacks, conns, loads, nCastMsgs, stopped,
          wire, sentFrames, consumed, crashed,
          tvClient, wsClients, senderClients, wsReceived, displaced, nWsCmds,
          aliveSet, responded, pingsSent, awaiting>>
pingVars == <<aliveSet, responded, pingsSent>>
wsVars == <<tvClient, wsClients, senderClients, wsReceived, displaced, nWsCmds, pingVars>>
frameVars == <<wire, sentFrames, consumed, crashed>>
castVars == <<conns, loads, nCastMsgs, stopped, frameVars>>

\* ------------------------------------------------------------ the effects

SendCommand(cmd) == [kind |-> "sendCommand", cmd |-> cmd]
AnswerReady(sid, sdp) == [kind |-> "answerReady", sessionId |-> sid, sdp |-> sdp]
DisplayCandidate(sid, c) == [kind |-> "displayCandidate", sessionId |-> sid, candidate |-> c]

MediaCommandCall(cmd) == [kind |-> "onMediaCommand", cmd |-> cmd]
CloseSessionCall(sid) == [kind |-> "closeSession", sessionId |-> sid]

IceCommand(sid, c) == [type |-> "ice-candidate", sessionId |-> sid, candidate |-> c]
OfferCommand(sid, sdp) == [type |-> "webrtc-offer", sessionId |-> sid, sdp |-> sdp]

\* ------------------------------------------------------- signaling relay

MapDelete(m, k) == [x \in DOMAIN m \ {k} |-> m[x]]
MapSet(m, k, v) == [x \in DOMAIN m \cup {k} |-> IF x = k THEN v ELSE m[x]]

touch(session, t) == [session EXCEPT !.lastActivity = t]

\* a getOrCreateSession that replaces the session it finds
getOrCreateSessionAlwaysNew(ss, sessionId, source, t) ==
  MapSet(ss, sessionId,
         [offer |-> None, answer |-> None, pendingSenderCandidates |-> <<>>,
          source |-> source, lastActivity |-> t])

getOrCreateSession(ss, sessionId, source, t) ==
  IF sessionId \in DOMAIN ss THEN ss
  ELSE MapSet(ss, sessionId,
              [offer |-> None, answer |-> None, pendingSenderCandidates |-> <<>>,
               source |-> source, lastActivity |-> t])

\* handleOffer: the session map after the call, and its effects
handleOffer(ss, sessionId, sdp, source, t) ==
  LET created == getOrCreateSession(ss, sessionId, source, t)
      session == touch([created[sessionId] EXCEPT !.offer = Some(sdp)], t)
  IN [sessions |-> MapSet(created, sessionId, session),
      effects |-> <<SendCommand(OfferCommand(sessionId, sdp))>>]

\* handleSenderCandidate without the test of session.answer: always forwards
handleSenderCandidateNoAnswerTest(ss, sessionId, candidate, t) ==
  IF sessionId \notin DOMAIN ss THEN [sessions |-> ss, effects |-> <<>>]
  ELSE [sessions |-> MapSet(ss, sessionId, touch(ss[sessionId], t)),
        effects |-> <<SendCommand(IceCommand(sessionId, candidate))>>]

\* handleSenderCandidate that forwards for an unknown session instead of returning
handleSenderCandidateNoSessionTest(ss, sessionId, candidate, t) ==
  IF sessionId \notin DOMAIN ss
  THEN [sessions |-> ss, effects |-> <<SendCommand(IceCommand(sessionId, candidate))>>]
  ELSE LET session == touch(ss[sessionId], t)
       IN IF session.answer # None
          THEN [sessions |-> MapSet(ss, sessionId, session),
                effects |-> <<SendCommand(IceCommand(sessionId, candidate))>>]
          ELSE [sessions |-> MapSet(ss, sessionId,
                   [session EXCEPT !.pendingSenderCandidates = Append(@, candidate)]),
                effects |-> <<>>]

\* handleSenderCandidate that queues the candidate also after the answer
handleSenderCandidateAlwaysQueues(ss, sessionId, candidate, t) ==
  IF sessionId \notin DOMAIN ss THEN [sessions |-> ss, effects |-> <<>>]
  ELSE LET session == touch(ss[sessionId], t)
       IN IF session.answer # None
          THEN [sessions |-> MapSet(ss, sessionId,
                   [session EXCEPT !.pendingSenderCandidates = Append(@, candidate)]),
                effects |-> <<SendCommand(IceCommand(sessionId, candidate))>>]
          ELSE [sessions |-> MapSet(ss, sessionId,
                   [session EXCEPT !.pendingSenderCandidates = Append(@, candidate)]),
                effects |-> <<>>]

handleSenderCandidate(ss, sessionId, candidate, t) ==
  IF sessionId \notin DOMAIN ss THEN [sessions |-> ss, effects |-> <<>>]
  ELSE LET session == touch(ss[sessionId], t)
       IN IF session.answer # None
          THEN [sessions |-> MapSet(ss, sessionId, session),
                effects |-> <<SendCommand(IceCommand(sessionId, candidate))>>]
          ELSE [sessions |-> MapSet(ss, sessionId,
                   [session EXCEPT !.pendingSenderCandidates = Append(@, candidate)]),
                effects |-> <<>>]

\* closeSession that forgets the answer and keeps the entry with its queue
closeSessionKeepsEntry(ss, sessionId) ==
  IF sessionId \in DOMAIN ss
  THEN MapSet(ss, sessionId, [ss[sessionId] EXCEPT !.answer = None])
  ELSE ss

closeSession(ss, sessionId) == MapDelete(ss, sessionId)

\* the reaper with >= in place of >
reapSessionsAtTimeout(ss, t) ==
  LET dead == {id \in DOMAIN ss : t - ss[id].lastActivity >= SESSION_TIMEOUT_MS}
  IN [id \in DOMAIN ss \ dead |-> ss[id]]

\* the reaper with the subtraction the wrong way round
reapSessionsSignError(ss, t) ==
  LET dead == {id \in DOMAIN ss : ss[id].lastActivity - t > SESSION_TIMEOUT_MS}
  IN [id \in DOMAIN ss \ dead |-> ss[id]]

reapSessions(ss, t) ==
  LET dead == {id \in DOMAIN ss : t - ss[id].lastActivity > SESSION_TIMEOUT_MS}
  IN [id \in DOMAIN ss \ dead |-> ss[id]]

\* ---------------------------------------------------------- orchestrator

\* src, dst and requestId of an inbound message: what its replies are built from
RequestOf(m) ==
  [sourceId |-> m.sourceId, destinationId |-> m.destinationId,
   requestId |-> m.payload.requestId]

\* sendJsonMessage on a CastV2 socket: one frame written to connection conn.
\* m is the inbound message whose handling created the reply.
sendJsonMessage(conn, sourceId, destinationId, namespace, payload, m) ==
  [kind |-> "write", conn |-> conn,
   msg |-> [sourceId |-> sourceId, destinationId |-> destinationId,
            namespace |-> namespace, payload |-> payload],
   req |-> RequestOf(m)]

\* closures that answer with seqNum 0 whatever the OFFER's seqNum
ClosureSeqNumZero(conn, m, seqNum) ==
  [conn |-> conn, src |-> m.sourceId, dst |-> m.destinationId, seqNum |-> 0,
   req |-> m]

\* the closures an OFFER creates capture socket, dst, src and seqNum
Closure(conn, m, seqNum) ==
  [conn |-> conn, src |-> m.sourceId, dst |-> m.destinationId, seqNum |-> seqNum,
   req |-> m]

\* sendAnswer with sourceId and destinationId not swapped
sendAnswerUnswapped(cl, answerSdp) ==
  sendJsonMessage(cl.conn, cl.src, cl.dst, NS_WEBRTC,
                  [type |-> "ANSWER", seqNum |-> cl.seqNum, answer |-> answerSdp],
                  cl.req)

sendAnswer(cl, answerSdp) ==
  sendJsonMessage(cl.conn, cl.dst, cl.src, NS_WEBRTC,
                  [type |-> "ANSWER", seqNum |-> cl.seqNum, answer |-> answerSdp],
                  cl.req)

sendCandidate(cl, candidate) ==
  sendJsonMessage(cl.conn, cl.dst, cl.src, NS_WEBRTC,
                  [type |-> "ICE_CANDIDATE", seqNum |-> cl.seqNum, candidate |-> candidate],
                  cl.req)

\* an answer-ready callback that keeps its entry
onAnswerReadyKeepsEntry(answerCbs, sessionId, sdp) ==
  IF sessionId \in DOMAIN answerCbs
  THEN [castAnswerCallbacks |-> answerCbs,
        effects |-> <<sendAnswer(answerCbs[sessionId], sdp)>>]
  ELSE [castAnswerCallbacks |-> answerCbs, effects |-> <<>>]

\* signaling.onAnswerReady callback of index.ts: one-shot
onAnswerReady(answerCbs, sessionId, sdp) ==
  IF sessionId \in DOMAIN answerCbs
  THEN [castAnswerCallbacks |-> MapDelete(answerCbs, sessionId),
        effects |-> <<sendAnswer(answerCbs[sessionId], sdp)>>]
  ELSE [castAnswerCallbacks |-> answerCbs, effects |-> <<>>]

\* signaling.onDisplayCandidate callback of index.ts
onDisplayCandidate(candidateCbs, sessionId, candidate) ==
  IF sessionId \in DOMAIN candidateCbs
  THEN <<sendCandidate(candidateCbs[sessionId], candidate)>>
  ELSE <<>>

\* ------------------------------------- signaling relay, display inbound

\* the flush, last buffered candidate first
RECURSIVE FlushCommandsReversed(_, _)
FlushCommandsReversed(sessionId, pending) ==
  IF pending = <<>> THEN <<>>
  ELSE FlushCommandsReversed(sessionId, Tail(pending))
       \o <<SendCommand(IceCommand(sessionId, Head(pending)))>>

\* the sends that flush a pending queue, in insertion order
RECURSIVE FlushCommands(_, _)
FlushCommands(sessionId, pending) ==
  IF pending = <<>> THEN <<>>
  ELSE <<SendCommand(IceCommand(sessionId, Head(pending)))>>
       \o FlushCommands(sessionId, Tail(pending))

\* the webrtc-answer branch with the callbacks fired before the flush
onWebrtcAnswerCallbacksFirst(ss, answerCbs, sessionId, sdp, t) ==
  LET known == sessionId \in DOMAIN ss
      flushed == IF known THEN FlushCommands(sessionId, ss[sessionId].pendingSenderCandidates)
                 ELSE <<>>
      after == IF known
               THEN MapSet(ss, sessionId,
                      [touch(ss[sessionId], t) EXCEPT !.answer = Some(sdp),
                                                      !.pendingSenderCandidates = <<>>])
               ELSE ss
      cb == onAnswerReady(answerCbs, sessionId, sdp)
  IN [sessions |-> after,
      castAnswerCallbacks |-> cb.castAnswerCallbacks,
      effects |-> <<AnswerReady(sessionId, sdp)>> \o cb.effects \o flushed]

\* an answer branch that sends the buffered candidates and leaves them queued
onWebrtcAnswerKeepsQueue(ss, answerCbs, sessionId, sdp, t) ==
  LET known == sessionId \in DOMAIN ss
      flushed == IF known THEN FlushCommands(sessionId, ss[sessionId].pendingSenderCandidates)
                 ELSE <<>>
      after == IF known
               THEN MapSet(ss, sessionId,
                      [touch(ss[sessionId], t) EXCEPT !.answer = Some(sdp)])
               ELSE ss
      cb == onAnswerReady(answerCbs, sessionId, sdp)
  IN [sessions |-> after,
      castAnswerCallbacks |-> cb.castAnswerCallbacks,
      effects |-> flushed \o <<AnswerReady(sessionId, sdp)>> \o cb.effects]

\* the webrtc-answer branch of the wsServer.onStatusUpdate handler
onWebrtcAnswer(ss, answerCbs, sessionId, sdp, t) ==
  LET known == sessionId \in DOMAIN ss
      flushed == IF known THEN FlushCommands(sessionId, ss[sessionId].pendingSenderCandidates)
                 ELSE <<>>
      after == IF known
               THEN MapSet(ss, sessionId,
                      [touch(ss[sessionId], t) EXCEPT !.answer = Some(sdp),
                                                      !.pendingSenderCandidates = <<>>])
               ELSE ss
      cb == onAnswerReady(answerCbs, sessionId, sdp)
  IN [sessions |-> after,
      castAnswerCallbacks |-> cb.castAnswerCallbacks,
      effects |-> flushed \o <<AnswerReady(sessionId, sdp)>> \o cb.effects]

\* the ice-candidate branch of the wsServer.onStatusUpdate handler
onDisplayIce(ss, candidateCbs, sessionId, candidate, t) ==
  [sessions |-> IF sessionId \in DOMAIN ss
                THEN MapSet(ss, sessionId, touch(ss[sessionId], t)) ELSE ss,
   effects |-> <<DisplayCandidate(sessionId, candidate)>>
               \o onDisplayCandidate(candidateCbs, sessionId, candidate)]

\* a handler that takes a webrtc-answer without sdp, with the empty sdp
onStatusUpdateAnswerWithoutSdp(ss, answerCbs, candidateCbs, msg, t) ==
  IF msg.type = None
  THEN [sessions |-> ss, castAnswerCallbacks |-> answerCbs, effects |-> <<>>]
  ELSE IF msg.type = Some("webrtc-answer") /\ msg.sessionId # None
  THEN onWebrtcAnswer(ss, answerCbs, msg.sessionId[1],
                      IF msg.sdp = None THEN "" ELSE msg.sdp[1], t)
  ELSE IF msg.type = Some("ice-candidate") /\ msg.sessionId # None /\ msg.candidate # None
  THEN LET r == onDisplayIce(ss, candidateCbs, msg.sessionId[1], msg.candidate[1], t)
       IN [sessions |-> r.sessions, castAnswerCallbacks |-> answerCbs,
           effects |-> r.effects]
  ELSE [sessions |-> ss, castAnswerCallbacks |-> answerCbs, effects |-> <<>>]

\* the wsServer.onStatusUpdate handler of the relay
onStatusUpdate(ss, answerCbs, candidateCbs, msg, t) ==
  IF msg.type = None
  THEN [sessions |-> ss, castAnswerCallbacks |-> answerCbs, effects |-> <<>>]
  ELSE IF msg.type = Some("webrtc-answer") /\ msg.sessionId # None /\ msg.sdp # None
  THEN onWebrtcAnswer(ss, answerCbs, msg.sessionId[1], msg.sdp[1], t)
  ELSE IF msg.type = Some("ice-candidate") /\ msg.sessionId # None /\ msg.candidate # None
  THEN LET r == onDisplayIce(ss, candidateCbs, msg.sessionId[1], msg.candidate[1], t)
       IN [sessions |-> r.sessions, castAnswerCallbacks |-> answerCbs,
           effects |-> r.effects]
  ELSE [sessions |-> ss, castAnswerCallbacks |-> answerCbs, effects |-> <<>>]

\* handleDisplayCandidate of the relay's API
handleDisplayCandidate(ss, candidateCbs, sessionId, candidate, t) ==
  onDisplayIce(ss, candidateCbs, sessionId, candidate, t)

\* ------------------------------------------------------------ media relay

\* toDisplayCommand of the media relay: the display command of a MediaCommand
\* a translation whose defaults replace every falsy field (|| for ??)
toDisplayCommandFalsyDefaults(cmd) ==
  CASE cmd.type = "load" ->
         Some([type |-> "load",
               url |-> IF cmd.url = None THEN "" ELSE cmd.url[1],
               contentType |-> IF cmd.contentType = None THEN "video/mp4"
                               ELSE cmd.contentType[1]])
    [] cmd.type = "play" -> Some([type |-> "play"])
    [] cmd.type = "pause" -> Some([type |-> "pause"])
    [] cmd.type = "seek" ->
         Some([type |-> "seek",
               currentTime |-> IF cmd.currentTime = None THEN 0 ELSE cmd.currentTime[1]])
    [] cmd.type = "stop" -> Some([type |-> "stop"])
    [] cmd.type = "volume" ->
         Some([type |-> "volume",
               level |-> IF cmd.volume = None \/ cmd.volume = Some(0) THEN 1
                         ELSE cmd.volume[1]])
    [] OTHER -> None

toDisplayCommand(cmd) ==
  CASE cmd.type = "load" ->
         Some([type |-> "load",
               url |-> IF cmd.url = None THEN "" ELSE cmd.url[1],
               contentType |-> IF cmd.contentType = None THEN "video/mp4"
                               ELSE cmd.contentType[1]])
    [] cmd.type = "play" -> Some([type |-> "play"])
    [] cmd.type = "pause" -> Some([type |-> "pause"])
    [] cmd.type = "seek" ->
         Some([type |-> "seek",
               currentTime |-> IF cmd.currentTime = None THEN 0 ELSE cmd.currentTime[1]])
    [] cmd.type = "stop" -> Some([type |-> "stop"])
    [] cmd.type = "volume" ->
         Some([type |-> "volume",
               level |-> IF cmd.volume = None THEN 1 ELSE cmd.volume[1]])
    [] OTHER -> None

\* the function createMediaRelay returns (onMediaCommand)
onMediaCommand(cmd) ==
  LET displayCmd == toDisplayCommand(cmd)
  IN IF displayCmd # None THEN <<SendCommand(displayCmd[1])>> ELSE <<>>

MediaCommand(type, requestId) ==
  [type |-> type, url |-> None, contentType |-> None, currentTime |-> None,
   volume |-> None, requestId |-> requestId]

\* ------------------------------------------------- CastV2 connection state

makeDefaultMediaState ==
  [mediaSessionId |-> 1, media |-> None, currentTime |-> 0, playerState |-> "IDLE",
   supportedMediaCommands |-> 127, volume |-> [level |-> 1, muted |-> FALSE]]

makeMediaStatus(state) ==
  [mediaSessionId |-> state.mediaSessionId, playbackRate |-> 1,
   playerState |-> state.playerState, currentTime |-> state.currentTime,
   supportedMediaCommands |-> state.supportedMediaCommands,
   volume |-> state.volume, media |-> state.media]

makeReceiverStatus(sessionId, transportId) ==
  [appId |-> "CC1AD845", sessionId |-> sessionId, transportId |-> transportId,
   volume |-> [controlType |-> "attenuation", level |-> 1, muted |-> FALSE]]

\* a ?? b on an optional value
OrElse(opt, default) == IF opt = None THEN default ELSE opt[1]

\* a requestId that is never read from the payload
RequestIdOfNotRead(payload) == 0

\* const requestId = (payload.requestId as number) ?? 0
RequestIdOf(payload) == OrElse(payload.requestId, 0)

buildConnectedBuffer(conn, sourceId, destinationId, requestId, req) ==
  sendJsonMessage(conn, sourceId, destinationId, NS_CONNECTION,
                  [type |-> "CONNECTED", requestId |-> requestId], req)

buildPongBuffer(conn, sourceId, destinationId, req) ==
  sendJsonMessage(conn, sourceId, destinationId, NS_HEARTBEAT, [type |-> "PONG"], req)

\* a handler's result: the media state after it, the frames it wrote and the
\* StartOptions callback it invoked last (at most one per message)
Handled(mediaState, writes, call) ==
  [mediaState |-> mediaState, writes |-> writes, call |-> call]

NoCall == [fn |-> "none"]

MediaStatusReply(conn, m, state) ==
  sendJsonMessage(conn, m.destinationId, m.sourceId, NS_MEDIA,
                  [type |-> "MEDIA_STATUS", requestId |-> RequestIdOf(m.payload),
                   status |-> <<makeMediaStatus(state)>>], m)

ReceiverStatusReply(conn, m, sessionId) ==
  sendJsonMessage(conn, m.destinationId, m.sourceId, NS_RECEIVER,
                  [type |-> "RECEIVER_STATUS", requestId |-> RequestIdOf(m.payload),
                   status |-> makeReceiverStatus(sessionId, <<"transport", sessionId>>)], m)

\* a connection namespace that answers every type with CONNECTED
handleConnectionNsAnyType(conn, state, m) ==
  Handled(state, <<buildConnectedBuffer(conn, m.destinationId, m.sourceId,
                                        RequestIdOf(m.payload), m)>>, NoCall)

handleConnectionNs(conn, state, m) ==
  IF OrElse(m.payload.type, "") = "CONNECT"
  THEN Handled(state, <<buildConnectedBuffer(conn, m.destinationId, m.sourceId,
                                             RequestIdOf(m.payload), m)>>, NoCall)
  ELSE Handled(state, <<>>, NoCall)

handleHeartbeatNs(conn, state, m) ==
  IF m.payload.type = Some("PING")
  THEN Handled(state, <<buildPongBuffer(conn, m.destinationId, m.sourceId, m)>>, NoCall)
  ELSE Handled(state, <<>>, NoCall)

\* a receiver STOP that leaves the media in place
handleReceiverNsStopKeepsMedia(conn, sessionId, state, m) ==
  LET msgType == OrElse(m.payload.type, "")
  IN IF msgType \in {"GET_STATUS", "LAUNCH"}
     THEN Handled(state, <<ReceiverStatusReply(conn, m, sessionId)>>, NoCall)
     ELSE IF msgType = "STOP"
     THEN Handled([state EXCEPT !.playerState = "IDLE"],
                  <<ReceiverStatusReply(conn, m, sessionId)>>,
                  [fn |-> "onMediaCommand",
                   cmd |-> MediaCommand("stop", RequestIdOf(m.payload))])
     ELSE Handled(state, <<>>, NoCall)

handleReceiverNs(conn, sessionId, state, m) ==
  LET msgType == OrElse(m.payload.type, "")
  IN IF msgType \in {"GET_STATUS", "LAUNCH"}
     THEN Handled(state, <<ReceiverStatusReply(conn, m, sessionId)>>, NoCall)
     ELSE IF msgType = "STOP"
     THEN Handled([state EXCEPT !.playerState = "IDLE", !.media = None],
                  <<ReceiverStatusReply(conn, m, sessionId)>>,
                  [fn |-> "onMediaCommand",
                   cmd |-> MediaCommand("stop", RequestIdOf(m.payload))])
     ELSE Handled(state, <<>>, NoCall)

\* mediaInfo?.field ?? default, for payload.media
MediaField(mediaInfo, field, default) ==
  IF mediaInfo = None THEN default ELSE OrElse(mediaInfo[1][field], default)

\* a LOAD that keeps the mediaSessionId
LoadStateSameSession(state, payload) ==
  LET contentId == MediaField(payload.media, "contentId",
                              MediaField(payload.media, "url", ""))
      contentType == MediaField(payload.media, "contentType", "video/mp4")
      streamType == MediaField(payload.media, "streamType", "BUFFERED")
  IN [state EXCEPT !.media = Some([contentId |-> contentId, contentType |-> contentType,
                                   streamType |-> streamType]),
                   !.playerState = "PLAYING",
                   !.currentTime = OrElse(payload.currentTime, 0)]

\* a LOAD that stores the media and leaves playerState as it was
LoadStateKeepsPlayerState(state, payload) ==
  LET contentId == MediaField(payload.media, "contentId",
                              MediaField(payload.media, "url", ""))
      contentType == MediaField(payload.media, "contentType", "video/mp4")
      streamType == MediaField(payload.media, "streamType", "BUFFERED")
  IN [state EXCEPT !.media = Some([contentId |-> contentId, contentType |-> contentType,
                                   streamType |-> streamType]),
                   !.currentTime = OrElse(payload.currentTime, 0),
                   !.mediaSessionId = @ + 1]

\* the state after a media LOAD
LoadState(state, payload) ==
  LET contentId == MediaField(payload.media, "contentId",
                              MediaField(payload.media, "url", ""))
      contentType == MediaField(payload.media, "contentType", "video/mp4")
      streamType == MediaField(payload.media, "streamType", "BUFFERED")
  IN [state EXCEPT !.media = Some([contentId |-> contentId, contentType |-> contentType,
                                   streamType |-> streamType]),
                   !.playerState = "PLAYING",
                   !.currentTime = OrElse(payload.currentTime, 0),
                   !.mediaSessionId = @ + 1]

\* a SET_VOLUME that copies the level alone
VolumeStateLevelOnly(state, payload) ==
  IF payload.volume = None THEN state
  ELSE [state EXCEPT !.volume.level = OrElse(payload.volume[1].level, @)]

\* the state after SET_VOLUME / VOLUME
VolumeState(state, payload) ==
  IF payload.volume = None THEN state
  ELSE LET vol == payload.volume[1]
       IN [state EXCEPT !.volume.level = OrElse(vol.level, @),
                        !.volume.muted = OrElse(vol.muted, @)]

handleMediaNs(conn, state, m) ==
  LET msgType == OrElse(m.payload.type, "")
      requestId == RequestIdOf(m.payload)
      Reply(st, cmd) == Handled(st, <<MediaStatusReply(conn, m, st)>>,
                                [fn |-> "onMediaCommand", cmd |-> cmd])
  IN CASE msgType = "GET_STATUS" ->
            Handled(state, <<MediaStatusReply(conn, m, state)>>, NoCall)
       [] msgType = "LOAD" ->
            LET st == LoadState(state, m.payload)
            IN Reply(st, [MediaCommand("load", requestId) EXCEPT
                            !.url = Some(st.media[1].contentId),
                            !.contentType = Some(st.media[1].contentType),
                            !.currentTime = Some(st.currentTime)])
       [] msgType = "PLAY" ->
            Reply([state EXCEPT !.playerState = "PLAYING"], MediaCommand("play", requestId))
       [] msgType = "PAUSE" ->
            Reply([state EXCEPT !.playerState = "PAUSED"], MediaCommand("pause", requestId))
       [] msgType = "SEEK" ->
            LET st == [state EXCEPT !.currentTime = OrElse(m.payload.currentTime, 0)]
            IN Reply(st, [MediaCommand("seek", requestId) EXCEPT
                            !.currentTime = Some(st.currentTime)])
       [] msgType = "STOP" ->
            Reply([state EXCEPT !.playerState = "IDLE", !.media = None],
                  MediaCommand("stop", requestId))
       [] msgType \in {"SET_VOLUME", "VOLUME"} ->
            LET st == VolumeState(state, m.payload)
            IN Reply(st, [MediaCommand("volume", requestId) EXCEPT
                            !.volume = Some(st.volume.level)])
       [] OTHER -> Handled(state, <<>>, NoCall)

\* the payload of m with only its requestId: the OFFER as its closures remember it
RequestPayload(m) == [requestId |-> m.payload.requestId]

handleWebrtcNs(conn, sessionId, state, m) ==
  LET msgType == OrElse(m.payload.type, "")
  IN IF msgType = "OFFER"
     THEN Handled(state, <<>>,
                  [fn |-> "onWebrtcOffer", sessionId |-> sessionId,
                   sdp |-> IF m.payload.offer = None THEN ""
                           ELSE OrElse(m.payload.offer[1].sdp, ""),
                   closure |-> Closure(conn, [m EXCEPT !.payload = RequestPayload(m)],
                                       OrElse(m.payload.seqNum, 0))])
     ELSE IF msgType = "ICE_CANDIDATE" /\ m.payload.candidate # None
     THEN Handled(state, <<>>,
                  [fn |-> "onIceCandidate", sessionId |-> sessionId,
                   candidate |-> m.payload.candidate[1]])
     ELSE Handled(state, <<>>, NoCall)

RemotingReply(conn, m, type) ==
  sendJsonMessage(conn, m.destinationId, m.sourceId, NS_REMOTING, [type |-> type], m)

handleRemotingNs(conn, sessionId, state, m) ==
  LET msgType == OrElse(m.payload.type, "")
  IN CASE msgType = "SETUP" -> Handled(state, <<RemotingReply(conn, m, "SETUP_OK")>>, NoCall)
       [] msgType = "START" -> Handled(state, <<RemotingReply(conn, m, "START_OK")>>, NoCall)
       [] msgType = "STOP" ->
            Handled(state, <<RemotingReply(conn, m, "STOP_OK")>>,
                    [fn |-> "onMirroringStop", sessionId |-> sessionId])
       [] OTHER -> Handled(state, <<>>, NoCall)

\* the switch on the namespace of one decoded message
handleMessage(conn, sessionId, state, m) ==
  CASE m.namespace = NS_CONNECTION -> handleConnectionNs(conn, state, m)
    [] m.namespace = NS_HEARTBEAT -> handleHeartbeatNs(conn, state, m)
    [] m.namespace = NS_RECEIVER -> handleReceiverNs(conn, sessionId, state, m)
    [] m.namespace = NS_MEDIA -> handleMediaNs(conn, state, m)
    [] m.namespace = NS_WEBRTC -> handleWebrtcNs(conn, sessionId, state, m)
    [] m.namespace = NS_REMOTING -> handleRemotingNs(conn, sessionId, state, m)
    [] OTHER -> Handled(state, <<>>, NoCall)

\* ------------------------------------------- orchestrator, StartOptions

\* the relay and orchestrator state after a StartOptions callback, with its effects
Orch(ss, answerCbs, candidateCbs, effects) ==
  [sessions |-> ss, castAnswerCallbacks |-> answerCbs,
   castCandidateCallbacks |-> candidateCbs, effects |-> effects]

cleanupSession(ss, answerCbs, candidateCbs, sessionId) ==
  Orch(closeSession(ss, sessionId), MapDelete(answerCbs, sessionId),
       MapDelete(candidateCbs, sessionId), <<CloseSessionCall(sessionId)>>)

onWebrtcOffer(ss, answerCbs, candidateCbs, call, t) ==
  LET r == handleOffer(ss, call.sessionId, call.sdp, "cast", t)
  IN Orch(r.sessions, MapSet(answerCbs, call.sessionId, call.closure),
          MapSet(candidateCbs, call.sessionId, call.closure), r.effects)

onIceCandidate(ss, answerCbs, candidateCbs, call, t) ==
  LET r == handleSenderCandidate(ss, call.sessionId, call.candidate, t)
  IN Orch(r.sessions, answerCbs, candidateCbs, r.effects)

\* a stop that cleans up before it tells the display
onMirroringStopCleanupFirst(ss, answerCbs, candidateCbs, call) ==
  LET r == cleanupSession(ss, answerCbs, candidateCbs, call.sessionId)
  IN [r EXCEPT !.effects =
        r.effects \o <<SendCommand([type |-> "mirror-stop", sessionId |-> call.sessionId])>>]

onMirroringStop(ss, answerCbs, candidateCbs, call) ==
  LET r == cleanupSession(ss, answerCbs, candidateCbs, call.sessionId)
  IN [r EXCEPT !.effects =
        <<SendCommand([type |-> "mirror-stop", sessionId |-> call.sessionId])>> \o r.effects]

\* the StartOptions callback a handler invoked, applied
applyCall(ss, answerCbs, candidateCbs, call, t) ==
  CASE call.fn = "onMediaCommand" ->
         Orch(ss, answerCbs, candidateCbs,
              <<MediaCommandCall(call.cmd)>> \o onMediaCommand(call.cmd))
    [] call.fn = "onWebrtcOffer" -> onWebrtcOffer(ss, answerCbs, candidateCbs, call, t)
    [] call.fn = "onIceCandidate" -> onIceCandidate(ss, answerCbs, candidateCbs, call, t)
    [] call.fn = "onMirroringStop" -> onMirroringStop(ss, answerCbs, candidateCbs, call)
    [] OTHER -> Orch(ss, answerCbs, candidateCbs, <<>>)

\* ------------------------------------------------------------------ inputs

Conns == {"A", "B"}
\* randomUUID() of handleConnection: distinct per connection
SessionIdOf(conn) == IF conn = "A" THEN "s1" ELSE "s2"

\* sourceId, destinationId and requestId of the requests a sender may send
Requests ==
  {[sourceId |-> "sender-0", destinationId |-> "receiver-0", requestId |-> None],
   [sourceId |-> "sender-1", destinationId |-> "transport-1", requestId |-> Some(7)]}

BasePayload ==
  [type |-> None, requestId |-> None, seqNum |-> None, currentTime |-> None,
   media |-> None, volume |-> None, offer |-> None, candidate |-> None]

NoMediaInfo == [contentId |-> None, url |-> None, contentType |-> None, streamType |-> None]
MediaInfos ==
  {None, Some(NoMediaInfo),
   Some([NoMediaInfo EXCEPT !.contentId = Some("http://example.com/v.mp4")]),
   Some([NoMediaInfo EXCEPT !.url = Some("http://example.com/a.mp3"),
                            !.contentType = Some("audio/mp3"),
                            !.streamType = Some("LIVE")])}

Volumes ==
  {None, Some([level |-> None, muted |-> Some(TRUE)]),
   Some([level |-> Some(0), muted |-> None])}

Offers == {None, Some([sdp |-> None]), Some([sdp |-> Some("sdpA")])}

\* namespace and type of the messages a sender may send
MediaKinds ==
  {<<NS_CONNECTION, Some("CONNECT")>>, <<NS_CONNECTION, Some("CLOSE")>>,
   <<NS_CONNECTION, None>>,
   <<NS_HEARTBEAT, Some("PING")>>, <<NS_HEARTBEAT, Some("PONG")>>,
   <<NS_RECEIVER, Some("GET_STATUS")>>, <<NS_RECEIVER, Some("LAUNCH")>>,
   <<NS_RECEIVER, Some("STOP")>>, <<NS_RECEIVER, Some("LOAD")>>,
   <<NS_MEDIA, Some("GET_STATUS")>>, <<NS_MEDIA, Some("LOAD")>>,
   <<NS_MEDIA, Some("PLAY")>>, <<NS_MEDIA, Some("PAUSE")>>,
   <<NS_MEDIA, Some("SEEK")>>, <<NS_MEDIA, Some("STOP")>>,
   <<NS_MEDIA, Some("SET_VOLUME")>>, <<NS_MEDIA, Some("VOLUME")>>,
   <<NS_MEDIA, Some("QUEUE_NEXT")>>, <<NS_MEDIA, None>>,
   <<"urn:x-cast:com.example.other", Some("LOAD")>>}

MirrorKinds ==
  {<<NS_WEBRTC, Some("OFFER")>>, <<NS_WEBRTC, Some("ICE_CANDIDATE")>>,
   <<NS_WEBRTC, Some("ANSWER")>>,
   <<NS_REMOTING, Some("SETUP")>>, <<NS_REMOTING, Some("START")>>,
   <<NS_REMOTING, Some("STOP")>>, <<NS_REMOTING, Some("LOAD")>>,
   <<"urn:x-cast:com.example.other", Some("OFFER")>>}

\* stands for the candidate object of an ICE_CANDIDATE until it is received
NewCandidate == "new"

\* the payloads of a kind: the fields its handler reads, present and absent
PayloadsOf(kind) ==
  LET base == [BasePayload EXCEPT !.type = kind[2]]
  IN CASE kind = <<NS_MEDIA, Some("LOAD")>> ->
            {[base EXCEPT !.media = mi, !.currentTime = ct] :
               mi \in MediaInfos, ct \in {None, Some(30)}}
       [] kind = <<NS_MEDIA, Some("SEEK")>> ->
            {[base EXCEPT !.currentTime = ct] : ct \in {None, Some(30)}}
       [] kind[1] = NS_MEDIA /\ kind[2] \in {Some("SET_VOLUME"), Some("VOLUME")} ->
            {[base EXCEPT !.volume = v] : v \in Volumes}
       [] kind = <<NS_WEBRTC, Some("OFFER")>> ->
            {[base EXCEPT !.seqNum = sn, !.offer = o] : sn \in {None, Some(3)}, o \in Offers}
       [] kind = <<NS_WEBRTC, Some("ICE_CANDIDATE")>> ->
            {[base EXCEPT !.candidate = c] : c \in {None, Some(NewCandidate)}}
       [] OTHER -> {base}

\* the decoded messages of the given kinds
MessagesOf(kinds) ==
  UNION {{[namespace |-> kind[1], sourceId |-> rq.sourceId,
           destinationId |-> rq.destinationId,
           payload |-> [p EXCEPT !.requestId = rq.requestId]] :
            rq \in Requests, p \in PayloadsOf(kind)} :
         kind \in kinds}

\* the media-control messages of a sender, and one message of each reply type
MediaMessages == MessagesOf(MediaKinds)
ReplyKinds ==
  {<<NS_CONNECTION, Some("CONNECT")>>, <<NS_HEARTBEAT, Some("PING")>>,
   <<NS_RECEIVER, Some("GET_STATUS")>>, <<NS_RECEIVER, Some("STOP")>>,
   <<NS_MEDIA, Some("PLAY")>>, <<NS_MEDIA, Some("STOP")>>}
\* messages no branch of the known namespaces handles
UnknownKinds ==
  {<<NS_CONNECTION, Some("CLOSE")>>, <<NS_CONNECTION, None>>,
   <<NS_HEARTBEAT, Some("PONG")>>, <<NS_RECEIVER, Some("LOAD")>>,
   <<NS_MEDIA, Some("QUEUE_NEXT")>>, <<NS_MEDIA, None>>}
\* the messages of a mirroring sender
MirrorMessages == MessagesOf(MirrorKinds \cup ReplyKinds \cup UnknownKinds)

\* what the display sends on its WebSocket: a PlayerStatus (no type), and the
\* signaling messages with and without their fields
DisplayMsg(type, sessionId, sdp, candidate) ==
  [type |-> type, sessionId |-> sessionId, sdp |-> sdp, candidate |-> candidate]

WellFormedDisplayMessages ==
  {DisplayMsg(Some("webrtc-answer"), Some(sid), Some(sdp), None) :
     sid \in SessionIds, sdp \in Sdps}
  \cup {DisplayMsg(Some("ice-candidate"), Some(sid), None, Some(c)) :
          sid \in SessionIds, c \in DisplayCands}

MalformedDisplayMessages ==
  {DisplayMsg(None, None, None, None),
   DisplayMsg(None, Some("s1"), Some("sdpA"), None),
   DisplayMsg(Some("webrtc-answer"), None, Some("sdpA"), None),
   DisplayMsg(Some("webrtc-answer"), Some("s1"), None, None),
   DisplayMsg(Some("ice-candidate"), None, None, Some("dc1")),
   DisplayMsg(Some("ice-candidate"), Some("s1"), None, None)}

DisplayMessages == WellFormedDisplayMessages \cup MalformedDisplayMessages

\* --------------------------------------------- CastV2 framing and payload

MAX_MSG_LEN == 1048576

\* Buffer.readUInt32BE(offset): the big-endian value of the 4 bytes after offset
readUInt32BE(buf, offset) ==
  ((buf[offset + 1] * 256 + buf[offset + 2]) * 256 + buf[offset + 3]) * 256 + buf[offset + 4]

\* Buffer.writeUInt32BE(n): the 4 bytes of n, most significant first
writeUInt32BE(n) ==
  <<(n \div 16777216) % 256, (n \div 65536) % 256, (n \div 256) % 256, n % 256>>

\* the frame of a body: 4 bytes of length, then the body (encodeMessage)
encodeFrame(body) == writeUInt32BE(Len(body)) \o body

\* the values JSON.parse can return
JsonObject(fields) == [kind |-> "object", fields |-> fields]
JsonNull == [kind |-> "null"]
JsonArray == [kind |-> "array"]
JsonNumber == [kind |-> "number"]
JsonString == [kind |-> "string"]

\* a text that JSON.parse accepts, with its value, and one it rejects
JsonText(value) == [valid |-> TRUE, value |-> value]
NotJson == [valid |-> FALSE]

\* JSON.parse(text): it throws on undefined and on text that is not JSON
JsonParse(text) ==
  IF text = None \/ ~text[1].valid THEN [threw |-> TRUE]
  ELSE [threw |-> FALSE, value |-> text[1].value]

\* let payload = {}; if the payload type is STRING, payload = JSON.parse(payloadUtf8),
\* and a parse error leaves {}
ParsePayload(decoded) ==
  IF decoded.payloadType = "STRING"
  THEN LET r == JsonParse(decoded.payloadUtf8)
       IN IF r.threw THEN JsonObject(BasePayload) ELSE r.value
  ELSE JsonObject(BasePayload)

\* reading a property of the payload throws a TypeError when the payload is null
PropertyReadThrows(payload) == payload.kind = "null"

\* the properties the handlers read: those of an object, undefined for an
\* array, a number or a string
PropertiesOf(payload) ==
  IF payload.kind = "object" THEN payload.fields ELSE BasePayload

\* the decoded message with its parsed payload
MessageOf(decoded, payload) ==
  [namespace |-> decoded.namespace, sourceId |-> decoded.sourceId,
   destinationId |-> decoded.destinationId, payload |-> PropertiesOf(payload)]

\* CastMessage.decode(msgBytes).toJSON(): the first byte of a body selects the
\* message, and a body holding the byte 255 is not a protobuf encoding
Catalog ==
  LET Text(ns, rq, type) ==
        [namespace |-> ns, sourceId |-> rq.sourceId, destinationId |-> rq.destinationId,
         payloadType |-> "STRING",
         payloadUtf8 |-> Some(JsonText(JsonObject(
                           [BasePayload EXCEPT !.type = Some(type),
                                               !.requestId = rq.requestId])))]
      r0 == [sourceId |-> "sender-0", destinationId |-> "receiver-0", requestId |-> None]
      r1 == [sourceId |-> "sender-1", destinationId |-> "transport-1", requestId |-> Some(7)]
  IN <<Text(NS_MEDIA, r0, "PLAY"),
       Text(NS_MEDIA, r1, "LOAD"),
       [Text(NS_MEDIA, r1, "PLAY") EXCEPT !.payloadUtf8 = Some(JsonText(JsonNull))],
       [Text(NS_MEDIA, r1, "PLAY") EXCEPT !.payloadUtf8 = Some(NotJson)],
       [Text(NS_RECEIVER, r1, "STOP") EXCEPT !.payloadUtf8 = None],
       [Text(NS_HEARTBEAT, r0, "PING") EXCEPT !.payloadUtf8 = Some(JsonText(JsonArray))],
       [Text(NS_CONNECTION, r0, "CONNECT") EXCEPT !.payloadUtf8 = Some(JsonText(JsonNumber))],
       [Text(NS_RECEIVER, r0, "GET_STATUS") EXCEPT !.payloadUtf8 = Some(JsonText(JsonString))],
       [Text(NS_MEDIA, r1, "PAUSE") EXCEPT !.payloadType = "BINARY"],
       [Text("urn:x-cast:com.example.other", r1, "PLAY") EXCEPT
          !.payloadUtf8 = Some(JsonText(JsonNull))]>>

CastMessageDecode(msgBytes) ==
  IF msgBytes = <<>> \/ (\E i \in 1..Len(msgBytes) : msgBytes[i] = 255)
     \/ msgBytes[1] \notin 1..Len(Catalog)
  THEN [threw |-> TRUE]
  ELSE [threw |-> FALSE, decoded |-> Catalog[msgBytes[1]]]

\* a compaction that forgets the unread bytes of the buffer
AppendChunkForgetsRemaining(recvBuf, recvOffset, chunk) ==
  IF recvOffset > 0
  THEN [recvBuf |-> chunk, recvOffset |-> 0]
  ELSE [recvBuf |-> recvBuf \o chunk, recvOffset |-> recvOffset]

\* socket.on('data'), first part: the chunk is appended to the receive buffer
AppendChunk(recvBuf, recvOffset, chunk) ==
  IF recvOffset > 0 /\ recvOffset = Len(recvBuf)
  THEN [recvBuf |-> chunk, recvOffset |-> 0]
  ELSE IF recvOffset > 0
  THEN [recvBuf |-> SubSeq(recvBuf, recvOffset + 1, Len(recvBuf)) \o chunk, recvOffset |-> 0]
  ELSE [recvBuf |-> recvBuf \o chunk, recvOffset |-> recvOffset]

\* what became of a frame body the read loop took
Took(body, result) == [body |-> body, result |-> result]

\* a limit that rejects a length of exactly 1 MiB
OversizedAtLimit(msgLen) == msgLen >= MAX_MSG_LEN

\* if (msgLen > MAX_MSG_LEN)
Oversized(msgLen) == msgLen > MAX_MSG_LEN

\* a decode error that gives up the rest of the receive buffer
SkippedDroppingBuffer(read, msgBytes) ==
  [read EXCEPT !.recvOffset = Len(read.recvBuf),
               !.taken = Append(@, Took(msgBytes, "undecodable"))]

\* catch { continue; }: the frame is behind the read offset already
Skipped(read, msgBytes) ==
  [read EXCEPT !.taken = Append(@, Took(msgBytes, "undecodable"))]

\* socket.on('data'), second part: the while loop over the complete frames of
\* the buffer. L holds the locals of the connection, the relay and orchestrator
\* state, the effects so far and the bodies taken so far.
RECURSIVE ReadLoop(_, _, _, _)
ReadLoop(conn, sessionId, L, t) ==
  IF Len(L.recvBuf) - L.recvOffset < 4 THEN L
  ELSE
    LET msgLen == readUInt32BE(L.recvBuf, L.recvOffset)
    IN IF Oversized(msgLen) THEN [L EXCEPT !.destroyed = TRUE]
       ELSE IF Len(L.recvBuf) - L.recvOffset < 4 + msgLen THEN L
       ELSE
         LET msgBytes == SubSeq(L.recvBuf, L.recvOffset + 5, L.recvOffset + 4 + msgLen)
             read == [L EXCEPT !.recvOffset = @ + 4 + msgLen]
             d == CastMessageDecode(msgBytes)
         IN IF d.threw
            THEN ReadLoop(conn, sessionId, Skipped(read, msgBytes), t)
            ELSE
              LET payload == ParsePayload(d.decoded)
              IN IF PropertyReadThrows(payload)
                 THEN [read EXCEPT !.crashed = TRUE,
                                   !.taken = Append(@, Took(msgBytes, "threw"))]
                 ELSE
                   LET h == handleMessage(conn, sessionId, read.mediaState,
                                          MessageOf(d.decoded, payload))
                       o == applyCall(read.sessions, read.castAnswerCallbacks,
                                      read.castCandidateCallbacks, h.call, t)
                   IN ReadLoop(conn, sessionId,
                        [read EXCEPT !.mediaState = h.mediaState,
                                     !.sessions = o.sessions,
                                     !.castAnswerCallbacks = o.castAnswerCallbacks,
                                     !.castCandidateCallbacks = o.castCandidateCallbacks,
                                     !.effects = @ \o h.writes \o o.effects,
                                     !.taken = Append(@, Took(msgBytes, "dispatched"))], t)

\* the data handler of a connection, for one chunk
onData(conn, c, ss, answerCbs, candidateCbs, chunk, t) ==
  LET a == AppendChunk(c.recvBuf, c.recvOffset, chunk)
  IN ReadLoop(conn, c.sessionId,
              [recvBuf |-> a.recvBuf, recvOffset |-> a.recvOffset,
               destroyed |-> c.destroyed, crashed |-> FALSE,
               mediaState |-> c.mediaState, sessions |-> ss,
               castAnswerCallbacks |-> answerCbs, castCandidateCallbacks |-> candidateCbs,
               effects |-> <<>>, taken |-> <<>>], t)

\* the frames a sender writes: messages of one and of two bytes, a body that is
\* not a protobuf encoding, a length of 1 MiB + 1 and a length of exactly 1 MiB
OversizedPrefix == writeUInt32BE(MAX_MSG_LEN + 1)
LargestPrefix == writeUInt32BE(MAX_MSG_LEN)
FramingFrames ==
  {encodeFrame(<<1>>), encodeFrame(<<2, 0>>), encodeFrame(<<255>>),
   encodeFrame(<<1, 255>>), OversizedPrefix, LargestPrefix}

\* one frame for each message of the catalog
PayloadFrames == {encodeFrame(<<i>>) : i \in 1..Len(Catalog)}

\* ------------------------------------------------ WebSocket server

\* the WebSocket connections the server accepts, each a new object
WebSockets == {"w1", "w2", "w3"}

\* the properties of a message that the connection handler reads
WsFields(type, sessionId) == [type |-> type, sessionId |-> sessionId]

\* the texts a client sends
WsTexts ==
  {JsonText(JsonObject(WsFields(Some("sender-hello"), Some("s1")))),
   JsonText(JsonObject(WsFields(Some("sender-hello"), None))),
   JsonText(JsonObject(WsFields(None, None))),
   JsonText(JsonNull),
   NotJson}

WsSend(ws, cmd) == [kind |-> "wsSend", ws |-> ws, cmd |-> cmd]
StatusCallbacks(msg) == [kind |-> "statusCallbacks", msg |-> msg]
SenderMessageCallbacks(msg) == [kind |-> "senderMessageCallbacks", msg |-> msg]

\* the state of the WebSocket server and the effects of a handler
Ws(tv, clients, senders, effects) ==
  [tvClient |-> tv, wsClients |-> clients, senderClients |-> senders, effects |-> effects]

\* a WebSocket as the connection handler gets it
NewClient == [readyState |-> "OPEN", destroyed |-> FALSE, role |-> "tv", senderId |-> None]

\* a connection handler that leaves the previous display open
onConnectionKeepsPrevious(tv, clients, senders, ws) ==
  Ws(Some(ws),
     MapSet(clients, ws, NewClient),
     senders, <<>>)

\* wss.on('connection'): the new WebSocket takes the display slot, and the
\* previous holder, if open, is closed
onConnection(tv, clients, senders, ws) ==
  LET replaced == tv # None /\ clients[tv[1]].readyState = "OPEN"
      closing == IF replaced THEN [clients EXCEPT ![tv[1]].readyState = "CLOSING"]
                 ELSE clients
  IN Ws(Some(ws),
        MapSet(closing, ws, NewClient),
        senders, <<>>)

\* a message handler whose sender-hello empties the display slot whoever holds it
onMessageHelloClearsSlot(tv, clients, senders, ws, text) ==
  LET r == JsonParse(Some(text))
  IN IF r.threw \/ PropertyReadThrows(r.value) THEN Ws(tv, clients, senders, <<>>)
     ELSE
       LET msg == IF r.value.kind = "object" THEN r.value.fields ELSE WsFields(None, None)
       IN IF msg.type = Some("sender-hello") /\ msg.sessionId # None
          THEN Ws(None,
                  [clients EXCEPT ![ws].role = "sender", ![ws].senderId = msg.sessionId],
                  MapSet(senders, msg.sessionId[1], ws), <<>>)
          ELSE IF clients[ws].role = "sender"
          THEN Ws(tv, clients, senders, <<SenderMessageCallbacks(r.value)>>)
          ELSE Ws(tv, clients, senders, <<StatusCallbacks(r.value)>>)

\* a message handler whose sender-hello leaves the sender in the display slot
onMessageHelloKeepsSlot(tv, clients, senders, ws, text) ==
  LET r == JsonParse(Some(text))
  IN IF r.threw \/ PropertyReadThrows(r.value) THEN Ws(tv, clients, senders, <<>>)
     ELSE
       LET msg == IF r.value.kind = "object" THEN r.value.fields ELSE WsFields(None, None)
       IN IF msg.type = Some("sender-hello") /\ msg.sessionId # None
          THEN Ws(tv,
                  [clients EXCEPT ![ws].role = "sender", ![ws].senderId = msg.sessionId],
                  MapSet(senders, msg.sessionId[1], ws), <<>>)
          ELSE IF clients[ws].role = "sender"
          THEN Ws(tv, clients, senders, <<SenderMessageCallbacks(r.value)>>)
          ELSE Ws(tv, clients, senders, <<StatusCallbacks(r.value)>>)

\* ws.on('message'): everything runs inside a try whose catch only logs
onMessage(tv, clients, senders, ws, text) ==
  LET r == JsonParse(Some(text))
  IN IF r.threw \/ PropertyReadThrows(r.value) THEN Ws(tv, clients, senders, <<>>)
     ELSE
       LET msg == IF r.value.kind = "object" THEN r.value.fields ELSE WsFields(None, None)
       IN IF msg.type = Some("sender-hello") /\ msg.sessionId # None
          THEN Ws(IF tv = Some(ws) THEN None ELSE tv,
                  [clients EXCEPT ![ws].role = "sender", ![ws].senderId = msg.sessionId],
                  MapSet(senders, msg.sessionId[1], ws), <<>>)
          ELSE IF clients[ws].role = "sender"
          THEN Ws(tv, clients, senders, <<SenderMessageCallbacks(r.value)>>)
          ELSE Ws(tv, clients, senders, <<StatusCallbacks(r.value)>>)

\* ws.on('close')
onClose(tv, clients, senders, ws) ==
  LET closed == [clients EXCEPT ![ws].readyState = "CLOSED"]
  IN IF clients[ws].role = "sender" /\ clients[ws].senderId # None
     THEN Ws(tv, closed, MapDelete(senders, clients[ws].senderId[1]), <<>>)
     ELSE IF tv = Some(ws) THEN Ws(None, closed, senders, <<>>)
     ELSE Ws(tv, closed, senders, <<>>)

\* ws.terminate() of the ping interval on a client that sent no pong: the
\* WebSocket leaves OPEN at once, its 'close' handler runs later
terminate(tv, clients, senders, ws) ==
  Ws(tv, [clients EXCEPT ![ws].readyState = "CLOSING", ![ws].destroyed = TRUE],
     senders, <<>>)

PingFrame(ws) == [kind |-> "wsPing", ws |-> ws]
Terminate(ws) == [kind |-> "wsTerminate", ws |-> ws]

\* a connection handler without aliveSet.add(ws)
aliveOnConnectionUnmarked(alive, ws) == alive

\* aliveSet.add(ws) of the connection handler
aliveOnConnection(alive, ws) == alive \cup {ws}

\* ws.on('pong')
onPong(alive, ws) == alive \cup {ws}

\* wss.clients: the WebSockets whose close event has not come
WssClients(clients) == {ws \in DOMAIN clients : clients[ws].readyState # "CLOSED"}

\* the order in which the tick's effects are listed
WsOrder == <<"w1", "w2", "w3">>

\* what the tick does to each client: terminate or ping
RECURSIVE PingEffects(_, _, _)
PingEffects(order, clients, alive) ==
  IF order = <<>> THEN <<>>
  ELSE LET ws == Head(order)
       IN (IF ws \notin WssClients(clients) THEN <<>>
           ELSE IF ws \notin alive THEN <<Terminate(ws)>>
           ELSE <<PingFrame(ws)>>)
          \o PingEffects(Tail(order), clients, alive)

\* a tick that pings every client and terminates none
pingIntervalPingsAll(clients, alive) ==
  [wsClients |-> clients,
   aliveSet |-> alive \ WssClients(clients),
   effects |-> PingEffects(WsOrder, clients, WssClients(clients))]

\* the setInterval callback: a client that is not marked alive is
\* terminated, the others are unmarked and pinged
pingInterval(clients, alive) ==
  [wsClients |-> [ws \in DOMAIN clients |->
                    IF ws \in WssClients(clients) \ alive
                    THEN [clients[ws] EXCEPT !.readyState = "CLOSING", !.destroyed = TRUE]
                    ELSE clients[ws]],
   aliveSet |-> alive \ WssClients(clients),
   effects |-> PingEffects(WsOrder, clients, alive)]

\* a sendCommand that writes to the slot's holder whatever its readyState
sendCommandAnyState(tv, clients, cmd) ==
  IF tv = None THEN <<>> ELSE <<WsSend(tv[1], cmd)>>

\* sendCommand(cmd) of the WebSocket server
sendCommand(tv, clients, cmd) ==
  IF tv = None \/ clients[tv[1]].readyState # "OPEN" THEN <<>>
  ELSE <<WsSend(tv[1], cmd)>>

\* the relay's handler on a parsed message of any JSON kind: null is falsy,
\* a number or a string is not of type object, an array has no type
onStatusValue(ss, answerCbs, candidateCbs, value, t) ==
  IF value.kind = "null" \/ value.kind \notin {"object", "array"}
  THEN [sessions |-> ss, castAnswerCallbacks |-> answerCbs, effects |-> <<>>]
  ELSE onStatusUpdate(ss, answerCbs, candidateCbs,
                      IF value.kind = "object" THEN value.fields
                      ELSE DisplayMsg(None, None, None, None), t)

\* the display's messages that are not objects
NonObjectValues == {JsonNull, JsonArray, JsonNumber, JsonString}

\* ------------------------------------------------------------------- Init

Init ==
  /\ sessions = <<>>
  /\ now = 0
  /\ nextReap = REAP_INTERVAL_MS
  /\ accepted = [sid \in SessionIds |-> <<>>]
  /\ delivered = [sid \in SessionIds |-> <<>>]
  /\ dropped = {}
  /\ out = <<>>
  /\ lastOp = [kind |-> "init"]
  /\ reaped = {}
  /\ nCands = 0
  /\ nOps = 0
  /\ castAnswerCallbacks = <<>>
  /\ castCandidateCallbacks = <<>>
  /\ conns = <<>>
  /\ loads = [c \in Conns |-> 0]
  /\ nCastMsgs = 0
  /\ stopped = {}
  /\ wire = [c \in Conns |-> <<>>]
  /\ sentFrames = [c \in Conns |-> <<>>]
  /\ consumed = [c \in Conns |-> <<>>]
  /\ crashed = FALSE
  /\ tvClient = None
  /\ wsClients = <<>>
  /\ senderClients = <<>>
  /\ wsReceived = [ws \in WebSockets |-> <<>>]
  /\ aliveSet = {}
  /\ responded = {}
  /\ pingsSent = [ws \in WebSockets |-> 0]
  /\ displaced = {}
  /\ nWsCmds = 0
  /\ awaiting = {}

\* the candidates of the ice-candidate commands for sessionId among the effects
RECURSIVE CandidatesSent(_, _)
CandidatesSent(effects, sessionId) ==
  IF effects = <<>> THEN <<>>
  ELSE LET e == Head(effects)
       IN (IF e.kind = "sendCommand" /\ e.cmd.type = "ice-candidate"
              /\ e.cmd.sessionId = sessionId
           THEN <<e.cmd.candidate>> ELSE <<>>)
          \o CandidatesSent(Tail(effects), sessionId)

Range(seq) == {seq[i] : i \in 1..Len(seq)}

\* the session ids of the webrtc-offer commands among the effects
OffersSent(effects) ==
  {effects[i].cmd.sessionId : i \in {j \in 1..Len(effects) :
      effects[j].kind = "sendCommand" /\ effects[j].cmd.type = "webrtc-offer"}}

\* the session ids whose webrtc-answer the relay's handler took among the effects
AnswersTaken(effects) ==
  {effects[i].sessionId : i \in {j \in 1..Len(effects) : effects[j].kind = "answerReady"}}

\* a handler ran: what it did, and the record of each session's candidates.
\* ss is the session map before it, taken the candidates the relay accepted.
Ran(op, effects, taken) ==
  /\ lastOp' = op
  /\ out' = effects
  /\ LET gone == {sid \in DOMAIN sessions : sid \notin DOMAIN sessions'}
     IN /\ accepted' = [sid \in SessionIds |->
                          IF sid \in gone THEN <<>>
                          ELSE accepted[sid] \o (IF sid \in DOMAIN taken THEN taken[sid] ELSE <<>>)]
        /\ delivered' = [sid \in SessionIds |->
                           IF sid \in gone THEN <<>>
                           ELSE delivered[sid] \o CandidatesSent(effects, sid)]
        /\ dropped' = dropped \cup
                        UNION {Range(sessions[sid].pendingSenderCandidates) : sid \in gone}
  /\ awaiting' = ((awaiting \cup OffersSent(effects)) \ AnswersTaken(effects))
                   \cap DOMAIN sessions'

NoneTaken == <<>>

Counted(n) == IF n < MaxRelayOps THEN n + 1 ELSE n
RelayOpsLeft == nOps < MaxRelayOps

\* ------------------------------------------- actions of the relay's API

\* signaling.handleOffer(sessionId, sdp, source)
HandleOffer(sessionId, sdp, source) ==
  /\ LET r == handleOffer(sessions, sessionId, sdp, source, now)
     IN /\ sessions' = r.sessions
        /\ Ran([kind |-> "handleOffer", sessionId |-> sessionId, sdp |-> sdp], r.effects,
               NoneTaken)
  /\ reaped' = reaped \ {sessionId}
  /\ nOps' = Counted(nOps)
  /\ UNCHANGED <<now, nextReap, nCands, orchVars, castVars, wsVars>>

\* signaling.handleSenderCandidate(sessionId, candidate), candidate a new object
HandleSenderCandidate(sessionId) ==
  /\ nCands < MaxCands
  /\ LET r == handleSenderCandidate(sessions, sessionId, nCands + 1, now)
     IN /\ sessions' = r.sessions
        /\ Ran([kind |-> "handleSenderCandidate", sessionId |-> sessionId,
                candidate |-> nCands + 1], r.effects,
               IF sessionId \in DOMAIN sessions
               THEN [sid \in {sessionId} |-> <<nCands + 1>>] ELSE NoneTaken)
  /\ nCands' = nCands + 1
  /\ nOps' = Counted(nOps)
  /\ UNCHANGED <<now, nextReap, reaped, orchVars, castVars, wsVars>>

\* signaling.handleDisplayCandidate(sessionId, candidate)
HandleDisplayCandidate(sessionId, candidate) ==
  /\ LET r == handleDisplayCandidate(sessions, castCandidateCallbacks, sessionId,
                                     candidate, now)
     IN /\ sessions' = r.sessions
        /\ Ran([kind |-> "handleDisplayCandidate", sessionId |-> sessionId], r.effects,
               NoneTaken)
  /\ nOps' = Counted(nOps)
  /\ UNCHANGED <<now, nextReap, reaped, nCands, orchVars, castVars, wsVars>>

\* signaling.closeSession(sessionId)
CloseSession(sessionId) ==
  /\ sessions' = closeSession(sessions, sessionId)
  /\ Ran([kind |-> "closeSession", sessionId |-> sessionId], <<>>, NoneTaken)
  /\ nOps' = Counted(nOps)
  /\ UNCHANGED <<now, nextReap, reaped, nCands, orchVars, castVars, wsVars>>

\* a message of the display reaches the relay's onStatusUpdate handler
DisplayMessage(msg) ==
  /\ LET r == onStatusUpdate(sessions, castAnswerCallbacks, castCandidateCallbacks,
                             msg, now)
     IN /\ sessions' = r.sessions
        /\ castAnswerCallbacks' = r.castAnswerCallbacks
        /\ Ran([kind |-> "displayMessage", msg |-> msg], r.effects, NoneTaken)
  /\ nOps' = Counted(nOps)
  /\ UNCHANGED <<now, nextReap, reaped, nCands, castCandidateCallbacks, castVars, wsVars>>

\* a display message that is not an object reaches the relay
DisplayValue(value) ==
  /\ LET r == onStatusValue(sessions, castAnswerCallbacks, castCandidateCallbacks,
                            value, now)
     IN /\ sessions' = r.sessions
        /\ castAnswerCallbacks' = r.castAnswerCallbacks
        /\ Ran([kind |-> "displayValue", value |-> value], r.effects, NoneTaken)
  /\ nOps' = Counted(nOps)
  /\ UNCHANGED <<now, nextReap, reaped, nCands, castCandidateCallbacks, castVars, wsVars>>

\* the media commands handed to the relay: every type, one type that is
\* none of them, and every field present or absent
RelayCommands ==
  {[type |-> type, url |-> url, contentType |-> contentType,
    currentTime |-> currentTime, volume |-> volume, requestId |-> requestId] :
     type \in {"load", "play", "pause", "seek", "stop", "volume", "queue"},
     url \in {None, Some("http://m/1.mp4")},
     contentType \in {None, Some("audio/mp3")},
     currentTime \in {None, Some(0), Some(30)},
     volume \in {None, Some(0), Some(1)},
     requestId \in {0, 7}}

\* the handler createMediaRelay returned is called with cmd
MediaRelay(cmd) ==
  /\ UNCHANGED sessions
  /\ Ran([kind |-> "onMediaCommand", cmd |-> cmd], onMediaCommand(cmd), NoneTaken)
  /\ UNCHANGED <<now, nextReap, reaped, nCands, nOps, orchVars, castVars, wsVars>>

NextRelay == \E cmd \in RelayCommands : MediaRelay(cmd)

\* the media relay alone
SpecRelay == Init /\ [][NextRelay]_vars

\* time passes, never past the next firing of reapInterval
Advance ==
  /\ now + TimeStep <= nextReap
  /\ now + TimeStep <= MaxTime
  /\ now' = now + TimeStep
  /\ UNCHANGED sessions
  /\ Ran([kind |-> "advance"], <<>>, NoneTaken)
  /\ UNCHANGED <<nextReap, reaped, nCands, nOps, orchVars, castVars, wsVars>>

\* reapInterval fires
ReapTick ==
  /\ now = nextReap
  /\ sessions' = reapSessions(sessions, now)
  /\ reaped' = reaped \cup (DOMAIN sessions \ DOMAIN sessions')
  /\ nextReap' = nextReap + REAP_INTERVAL_MS
  /\ Ran([kind |-> "reap"], <<>>, NoneTaken)
  /\ UNCHANGED <<now, nCands, nOps, orchVars, castVars, wsVars>>

NextSig ==
  \/ \E sid \in SessionIds, sdp \in Sdps, source \in Sources : HandleOffer(sid, sdp, source)
  \/ \E sid \in SessionIds : HandleSenderCandidate(sid)
  \/ \E sid \in SessionIds, c \in DisplayCands : HandleDisplayCandidate(sid, c)
  \/ \E sid \in SessionIds : CloseSession(sid)
  \/ \E msg \in DisplayMessages : DisplayMessage(msg)

SpecSig == Init /\ [][NextSig]_vars

\* the relay with its clock and its reaper
NextReap ==
  \/ \E sid \in SessionIds : RelayOpsLeft /\ HandleOffer(sid, "sdpA", "cast")
  \/ \E sid \in SessionIds : RelayOpsLeft /\ HandleSenderCandidate(sid)
  \/ \E sid \in SessionIds : RelayOpsLeft /\ HandleDisplayCandidate(sid, "dc1")
  \/ \E sid \in SessionIds : RelayOpsLeft /\ CloseSession(sid)
  \/ \E sid \in SessionIds :
        /\ RelayOpsLeft
        /\ DisplayMessage(DisplayMsg(Some("webrtc-answer"), Some(sid), Some("sdpA"), None))
  \/ \E sid \in SessionIds :
        /\ RelayOpsLeft
        /\ DisplayMessage(DisplayMsg(Some("ice-candidate"), Some(sid), None, Some("dc1")))
  \/ Advance
  \/ ReapTick

SpecReap == Init /\ [][NextReap]_vars

NextMalformed ==
  \/ \E sid \in SessionIds : RelayOpsLeft /\ HandleOffer(sid, "sdpA", "cast")
  \/ \E sid \in SessionIds : RelayOpsLeft /\ HandleSenderCandidate(sid)
  \/ \E msg \in WellFormedDisplayMessages : RelayOpsLeft /\ DisplayMessage(msg)
  \/ \E msg \in MalformedDisplayMessages : DisplayMessage(msg)
  \/ \E value \in NonObjectValues : DisplayValue(value)
  \/ Advance

\* the relay while time passes, with a display that sends anything
SpecMalformed == Init /\ [][NextMalformed]_vars

\* ------------------------------------- actions of the bridge (index.ts)

\* the CastV2 listener accepts a connection: handleConnection(socket, options)
CastAccept(conn) ==
  /\ conn \notin DOMAIN conns
  /\ ~crashed
  /\ conns' = MapSet(conns, conn, [sessionId |-> SessionIdOf(conn),
                                   mediaState |-> makeDefaultMediaState,
                                   recvBuf |-> <<>>, recvOffset |-> 0,
                                   destroyed |-> FALSE])
  /\ UNCHANGED sessions
  /\ Ran([kind |-> "castAccept", conn |-> conn], <<>>, NoneTaken)
  /\ UNCHANGED <<now, nextReap, reaped, nCands, nOps, orchVars, loads, nCastMsgs, stopped,
                 frameVars, wsVars>>

\* a media state shared by all connections
StoreMediaStateShared(cs, conn, state) ==
  [c \in DOMAIN cs |-> [cs[c] EXCEPT !.mediaState = state]]

\* the mediaState of handleConnection belongs to its connection
StoreMediaState(cs, conn, state) == [cs EXCEPT ![conn].mediaState = state]

IsLoad(m) == m.namespace = NS_MEDIA /\ m.payload.type = Some("LOAD")

\* one decoded message is dispatched on connection conn; the candidate it
\* carries, if any, is a new object
CastReceive(conn, received) ==
  /\ ~crashed
  /\ conn \in DOMAIN conns
  /\ ~conns[conn].destroyed
  /\ nCastMsgs < MaxCastMsgs
  /\ received.payload.candidate # None => nCands < MaxCands
  /\ LET sid == conns[conn].sessionId
         m == IF received.payload.candidate = None THEN received
              ELSE [received EXCEPT !.payload.candidate = Some(nCands + 1)]
         h == handleMessage(conn, sid, conns[conn].mediaState, m)
         o == applyCall(sessions, castAnswerCallbacks, castCandidateCallbacks, h.call, now)
     IN /\ conns' = StoreMediaState(conns, conn, h.mediaState)
        /\ sessions' = o.sessions
        /\ castAnswerCallbacks' = o.castAnswerCallbacks
        /\ castCandidateCallbacks' = o.castCandidateCallbacks
        /\ Ran([kind |-> "castReceive", conn |-> conn, namespace |-> m.namespace,
                type |-> m.payload.type, payload |-> m.payload],
               h.writes \o o.effects,
               IF h.call.fn = "onIceCandidate" /\ sid \in DOMAIN sessions
               THEN [x \in {sid} |-> <<h.call.candidate>>] ELSE NoneTaken)
        /\ reaped' = IF h.call.fn = "onWebrtcOffer" THEN reaped \ {sid} ELSE reaped
        /\ stopped' = IF h.call.fn = "onMirroringStop" /\ sid \in DOMAIN castCandidateCallbacks
                      THEN stopped \cup {sid}
                      ELSE IF h.call.fn = "onWebrtcOffer" THEN stopped \ {sid}
                      ELSE stopped
  /\ nCands' = IF received.payload.candidate # None THEN nCands + 1 ELSE nCands
  /\ loads' = IF IsLoad(received) THEN [loads EXCEPT ![conn] = @ + 1] ELSE loads
  /\ nCastMsgs' = nCastMsgs + 1
  /\ UNCHANGED <<now, nextReap, nOps, frameVars, wsVars>>

\* the sender disconnects: handleConnection listens to no 'close' or 'end'
\* event and its 'error' listener is empty, so no handler runs
CastDisconnect(conn) ==
  /\ ~crashed
  /\ conn \in DOMAIN conns
  /\ ~conns[conn].destroyed
  /\ conns' = [conns EXCEPT ![conn].destroyed = TRUE]
  /\ UNCHANGED sessions
  /\ Ran([kind |-> "castDisconnect", conn |-> conn], <<>>, NoneTaken)
  /\ UNCHANGED <<now, nextReap, reaped, nCands, nOps, orchVars, loads, nCastMsgs, stopped,
                 frameVars, wsVars>>

\* the sender writes a frame on its connection: its bytes are in flight
CastWrite(conn, frame) ==
  /\ ~crashed
  /\ conn \in DOMAIN conns
  /\ Len(sentFrames[conn]) < MaxFrames
  /\ wire' = [wire EXCEPT ![conn] = @ \o frame]
  /\ sentFrames' = [sentFrames EXCEPT ![conn] = Append(@, frame)]
  /\ UNCHANGED sessions
  /\ Ran([kind |-> "castWrite", conn |-> conn], <<>>, NoneTaken)
  /\ UNCHANGED <<now, nextReap, reaped, nCands, nOps, orchVars, conns, loads, nCastMsgs, stopped,
                 consumed, crashed, wsVars>>

\* the media LOADs among the bodies a chunk dispatched
LoadsAmong(taken) ==
  Cardinality({i \in 1..Len(taken) :
                 /\ taken[i].result = "dispatched"
                 /\ LET d == CastMessageDecode(taken[i].body).decoded
                    IN IsLoad(MessageOf(d, ParsePayload(d)))})

\* the socket emits 'data' with the next n bytes in flight: the whole handler
CastData(conn, n) ==
  /\ ~crashed
  /\ conn \in DOMAIN conns
  /\ n \in 1..Len(wire[conn])
  /\ LET L == onData(conn, conns[conn], sessions, castAnswerCallbacks,
                     castCandidateCallbacks, SubSeq(wire[conn], 1, n), now)
     IN /\ conns' = [conns EXCEPT ![conn].mediaState = L.mediaState,
                                  ![conn].recvBuf = L.recvBuf,
                                  ![conn].recvOffset = L.recvOffset,
                                  ![conn].destroyed = L.destroyed]
        /\ sessions' = L.sessions
        /\ castAnswerCallbacks' = L.castAnswerCallbacks
        /\ castCandidateCallbacks' = L.castCandidateCallbacks
        /\ crashed' = L.crashed
        /\ consumed' = [consumed EXCEPT ![conn] = @ \o L.taken]
        /\ loads' = [loads EXCEPT ![conn] = @ + LoadsAmong(L.taken)]
        /\ Ran([kind |-> "castData", conn |-> conn, n |-> n, taken |-> L.taken],
               L.effects, NoneTaken)
  /\ wire' = [wire EXCEPT ![conn] = SubSeq(@, n + 1, Len(@))]
  /\ UNCHANGED <<now, nextReap, reaped, nCands, nOps, nCastMsgs, stopped, sentFrames, wsVars>>

\* ------------------------------------- actions of the WebSocket server

\* a WebSocket handler or API call ran: the server's state after it, and what
\* it wrote to which WebSocket
WsRan(op, r) ==
  /\ tvClient' = r.tvClient
  /\ wsClients' = r.wsClients
  /\ senderClients' = r.senderClients
  /\ wsReceived' = [ws \in WebSockets |->
                      wsReceived[ws] \o
                        SelectSeq(r.effects, LAMBDA e : e.kind = "wsSend" /\ e.ws = ws)]
  /\ displaced' = displaced \cup
                    {ws \in DOMAIN wsClients :
                       op.kind = "wsConnect" /\ wsClients[ws].readyState = "OPEN"
                         /\ r.wsClients[ws].readyState = "CLOSING"}
  /\ UNCHANGED sessions
  /\ Ran(op, r.effects, NoneTaken)
  /\ UNCHANGED <<now, nextReap, reaped, nCands, nOps, orchVars, castVars>>

\* a client connects
WsConnect(ws) ==
  /\ ws \notin DOMAIN wsClients
  /\ WsRan([kind |-> "wsConnect", ws |-> ws],
           onConnection(tvClient, wsClients, senderClients, ws))
  /\ aliveSet' = aliveOnConnection(aliveSet, ws)
  /\ responded' = responded \cup {ws}
  /\ UNCHANGED <<nWsCmds, pingsSent>>

\* a client's message arrives
WsMessage(ws, text) ==
  /\ ws \in DOMAIN wsClients
  /\ wsClients[ws].readyState \in {"OPEN", "CLOSING"}
  /\ ~wsClients[ws].destroyed
  /\ WsRan([kind |-> "wsMessage", ws |-> ws, text |-> text],
           onMessage(tvClient, wsClients, senderClients, ws, text))
  /\ UNCHANGED <<nWsCmds, pingVars>>

\* a client's pong arrives
WsPong(ws) ==
  /\ ws \in DOMAIN wsClients
  /\ wsClients[ws].readyState \in {"OPEN", "CLOSING"}
  /\ ~wsClients[ws].destroyed
  /\ WsRan([kind |-> "wsPong", ws |-> ws],
           Ws(tvClient, wsClients, senderClients, <<>>))
  /\ aliveSet' = onPong(aliveSet, ws)
  /\ responded' = responded \cup {ws}
  /\ UNCHANGED <<nWsCmds, pingsSent>>

\* the ping interval fires
PingTick ==
  LET r == pingInterval(wsClients, aliveSet)
  IN /\ WsRan([kind |-> "pingTick"],
              Ws(tvClient, r.wsClients, senderClients, r.effects))
     /\ aliveSet' = r.aliveSet
     /\ responded' = {}
     /\ pingsSent' = [ws \in WebSockets |->
                        IF PingFrame(ws) \in Range(r.effects) /\ pingsSent[ws] < MaxPings
                        THEN pingsSent[ws] + 1 ELSE pingsSent[ws]]
     /\ UNCHANGED nWsCmds

\* the ping interval terminates a client, at whichever tick finds it
\* unmarked (the ticks and the pongs themselves are PingTick and WsPong)
WsTerminate(ws) ==
  /\ ws \in DOMAIN wsClients
  /\ wsClients[ws].readyState = "OPEN"
  /\ WsRan([kind |-> "wsTerminate", ws |-> ws],
           terminate(tvClient, wsClients, senderClients, ws))
  /\ UNCHANGED <<nWsCmds, pingVars>>

\* a WebSocket is closed, by its peer or after the server's close
WsClose(ws) ==
  /\ ws \in DOMAIN wsClients
  /\ wsClients[ws].readyState # "CLOSED"
  /\ WsRan([kind |-> "wsClose", ws |-> ws],
           onClose(tvClient, wsClients, senderClients, ws))
  /\ UNCHANGED <<nWsCmds, pingVars>>

\* wsServer.sendCommand(cmd), cmd a new command
WsSendCommand ==
  /\ nWsCmds < MaxWsCmds
  /\ WsRan([kind |-> "sendCommand", cmd |-> nWsCmds + 1],
           Ws(tvClient, wsClients, senderClients,
              sendCommand(tvClient, wsClients, nWsCmds + 1)))
  /\ nWsCmds' = nWsCmds + 1
  /\ UNCHANGED pingVars

NextWs ==
  \/ \E ws \in WebSockets : WsConnect(ws)
  \/ \E ws \in WebSockets : \E text \in WsTexts : WsMessage(ws, text)
  \/ \E ws \in WebSockets : WsTerminate(ws)
  \/ \E ws \in WebSockets : WsClose(ws)
  \/ WsSendCommand

\* the WebSocket server alone
SpecWs == Init /\ [][NextWs]_vars

SenderHelloText == JsonText(JsonObject(WsFields(Some("sender-hello"), Some("s1"))))

\* the WebSockets that connect while the heartbeat is watched
HeartbeatSockets == {"w1", "w2"}

NextHeartbeat ==
  \/ \E ws \in HeartbeatSockets : WsConnect(ws)
  \/ \E ws \in HeartbeatSockets : WsMessage(ws, SenderHelloText)
  \/ \E ws \in HeartbeatSockets : WsPong(ws)
  \/ PingTick
  \/ \E ws \in HeartbeatSockets : WsClose(ws)
  \/ WsSendCommand

\* the WebSocket server with its heartbeat
SpecHeartbeat == Init /\ [][NextHeartbeat]_vars

\* wsServer.onSenderMessage callback of index.ts: a custom sender's webrtc-offer
SenderOffer(sessionId, sdp) ==
  HandleOffer(sessionId, sdp, "custom")

\* wsServer.onSenderMessage callback of index.ts: a custom sender's ice-candidate
SenderCandidate(sessionId) ==
  HandleSenderCandidate(sessionId)

\* the display's messages in the runs of the whole bridge
BridgeDisplayMessages ==
  {DisplayMsg(None, None, None, None)}
  \cup {DisplayMsg(Some("webrtc-answer"), Some(sid), Some("sdpA"), None) : sid \in SessionIds}
  \cup {DisplayMsg(Some("ice-candidate"), Some(sid), None, Some("dc1")) : sid \in SessionIds}

Next ==
  \/ \E conn \in Conns : CastAccept(conn)
  \/ \E conn \in Conns : \E m \in MirrorMessages : CastReceive(conn, m)
  \/ \E msg \in BridgeDisplayMessages : RelayOpsLeft /\ DisplayMessage(msg)
  \/ \E sid \in SessionIds : RelayOpsLeft /\ SenderOffer(sid, "sdpB")
  \/ \E sid \in SessionIds : RelayOpsLeft /\ SenderCandidate(sid)

Spec == Init /\ [][Next]_vars

NextDisconnect ==
  \/ \E conn \in Conns : CastAccept(conn)
  \/ \E conn \in Conns : \E m \in MirrorMessages : CastReceive(conn, m)
  \/ \E conn \in Conns : CastDisconnect(conn)
  \/ \E msg \in BridgeDisplayMessages : RelayOpsLeft /\ DisplayMessage(msg)

\* the bridge with senders that disconnect
SpecDisconnect == Init /\ [][NextDisconnect]_vars

\* the CastV2 sessions under media control alone
NextMedia ==
  \/ \E conn \in Conns : CastAccept(conn)
  \/ \E conn \in Conns : \E m \in MediaMessages : CastReceive(conn, m)

SpecMedia == Init /\ [][NextMedia]_vars

\* one CastV2 connection fed a byte stream in chunks of any size
NextFrame ==
  \/ CastAccept("A")
  \/ \E frame \in FramingFrames : CastWrite("A", frame)
  \/ \E n \in 1..Len(wire["A"]) : CastData("A", n)

SpecFrame == Init /\ [][NextFrame]_vars

\* CastV2 connections fed whole frames with payloads of every kind
NextPayload ==
  \/ \E conn \in Conns : CastAccept(conn)
  \/ \E conn \in Conns : \E frame \in PayloadFrames :
        Len(sentFrames["A"]) + Len(sentFrames["B"]) < MaxFrames /\ CastWrite(conn, frame)
  \/ \E conn \in Conns : CastData(conn, Len(wire[conn]))

SpecPayload == Init /\ [][NextPayload]_vars

\* --------------------------------------------------- the relay's properties

IsIceSend(e) == e.kind = "sendCommand" /\ e.cmd.type = "ice-candidate"
Indexes(seq) == 1..Len(seq)

\* C1: handleSenderCandidate(sessionId, c) on an existing session hands c to
\* sendCommand during the call iff the session has a stored answer at the call;
\* otherwise c is appended to the pending queue and the call sends nothing.
C1_ForwardIffAnswered ==
  [][(lastOp'.kind = "handleSenderCandidate" /\ lastOp'.sessionId \in DOMAIN sessions)
     => LET sid == lastOp'.sessionId
            c == lastOp'.candidate
            pending == sessions[sid].pendingSenderCandidates
        IN IF sessions[sid].answer # None
           THEN /\ out' = <<SendCommand(IceCommand(sid, c))>>
                /\ sessions'[sid].pendingSenderCandidates = pending
           ELSE /\ out' = <<>>
                /\ sessions'[sid].pendingSenderCandidates = Append(pending, c)]_vars

\* one candidate was forwarded at once while another session holds a buffered one
C1_Witness ==
  /\ lastOp.kind = "handleSenderCandidate"
  /\ out = <<SendCommand(IceCommand(lastOp.sessionId, lastOp.candidate))>>
  /\ \E sid \in DOMAIN sessions :
       /\ sessions[sid].answer = None
       /\ sessions[sid].pendingSenderCandidates # <<>>

\* C2: candidate FIFO. For every session the candidates sent to the display are,
\* in order, the candidates that arrived for it; none is sent while the session
\* has no answer (they wait in the queue, in arrival order), and once the answer
\* is stored all of them have been sent.
C2_CandidateFifo ==
  \A sid \in SessionIds :
    IF sid \in DOMAIN sessions
    THEN /\ delivered[sid] \o sessions[sid].pendingSenderCandidates = accepted[sid]
         /\ sessions[sid].answer = None => delivered[sid] = <<>>
         /\ sessions[sid].answer # None => delivered[sid] = accepted[sid]
    ELSE delivered[sid] = <<>>

\* an answer flushed two buffered candidates
C2_Witness ==
  /\ lastOp.kind = "displayMessage"
  /\ lastOp.msg.type = Some("webrtc-answer")
  /\ \E sid \in DOMAIN sessions :
       /\ Len(CandidatesSent(out, sid)) = MaxCands
       /\ delivered[sid] = accepted[sid]

\* C4: handleSenderCandidate for an id with no session is dropped silently: no
\* command, no session created, no callback, no session or callback map changed.
C4_UnknownSessionDropped ==
  [][(lastOp'.kind = "handleSenderCandidate" /\ lastOp'.sessionId \notin DOMAIN sessions)
     => /\ out' = <<>>
        /\ sessions' = sessions
        /\ UNCHANGED <<castAnswerCallbacks, castCandidateCallbacks, conns>>]_vars

\* a candidate for an id whose session was closed, while another session exists
C4_Witness ==
  /\ lastOp.kind = "handleSenderCandidate"
  /\ lastOp.sessionId \notin DOMAIN sessions
  /\ DOMAIN sessions # {}
  /\ dropped # {}

\* C5: closeSession removes the entry; the candidates buffered in it are never
\* sent to the display nor queued again, whatever follows (an answer for the id,
\* a new offer for the id), and a session created by handleOffer starts with an
\* empty pending queue and no answer.
C5_ClosedCandidatesNeverSent ==
  [][/\ lastOp'.kind = "closeSession"
        => /\ lastOp'.sessionId \notin DOMAIN sessions'
           /\ out' = <<>>
           /\ \A sid \in DOMAIN sessions \ {lastOp'.sessionId} :
                sid \in DOMAIN sessions' /\ sessions'[sid] = sessions[sid]
     /\ (lastOp'.kind = "handleOffer" /\ lastOp'.sessionId \notin DOMAIN sessions)
        => /\ sessions'[lastOp'.sessionId].pendingSenderCandidates = <<>>
           /\ sessions'[lastOp'.sessionId].answer = None
     /\ \A i \in Indexes(out') : IsIceSend(out'[i]) => out'[i].cmd.candidate \notin dropped'
     /\ \A sid \in DOMAIN sessions' :
          Range(sessions'[sid].pendingSenderCandidates) \cap dropped' = {}]_vars

\* the display answers for an id whose earlier session was closed with a
\* buffered candidate and then offered again
C5_Witness ==
  /\ lastOp.kind = "displayMessage"
  /\ lastOp.msg.type = Some("webrtc-answer")
  /\ lastOp.msg.sessionId # None
  /\ lastOp.msg.sessionId[1] \in DOMAIN sessions
  /\ dropped # {}
  /\ \E i \in Indexes(out) : out[i].kind = "answerReady"

\* C6: reaper safety. A tick deletes a session only if now - lastActivity >
\* 60000; a session last touched at most 60000 ms before the tick survives it
\* unchanged; an offer, a sender candidate, a display answer and a display
\* candidate for an existing session each set its lastActivity to the time of
\* the call.
C6_ReaperSafety ==
  [][/\ lastOp'.kind = "reap"
        => \A sid \in DOMAIN sessions :
             /\ sid \notin DOMAIN sessions' => now - sessions[sid].lastActivity > SESSION_TIMEOUT_MS
             /\ now - sessions[sid].lastActivity <= SESSION_TIMEOUT_MS
                  => sid \in DOMAIN sessions' /\ sessions'[sid] = sessions[sid]
     /\ (/\ lastOp'.kind \in {"handleOffer", "handleSenderCandidate", "handleDisplayCandidate"}
         /\ lastOp'.sessionId \in DOMAIN sessions)
        => sessions'[lastOp'.sessionId].lastActivity = now'
     /\ (/\ lastOp'.kind = "displayMessage"
         /\ lastOp'.msg \in WellFormedDisplayMessages
         /\ lastOp'.msg.sessionId[1] \in DOMAIN sessions)
        => sessions'[lastOp'.msg.sessionId[1]].lastActivity = now']_vars

\* a tick deleted one session and spared one touched exactly 60000 ms before it
C6_Witness ==
  /\ lastOp.kind = "reap"
  /\ reaped # {}
  /\ \E sid \in DOMAIN sessions : now - sessions[sid].lastActivity = SESSION_TIMEOUT_MS

\* the time of the last firing of reapInterval (0 before the first)
LastReap == nextReap - REAP_INTERVAL_MS

\* C7: reaper liveness, with the timer firing every 15 s. No session survives a
\* tick at which more than 60 s had passed since its last activity, so none is
\* idle for more than 75 s; a sender candidate for an id whose session the
\* reaper deleted is dropped silently.
C7_ReaperLiveness ==
  /\ \A sid \in DOMAIN sessions :
       /\ LastReap - sessions[sid].lastActivity <= SESSION_TIMEOUT_MS
       /\ now - sessions[sid].lastActivity <= SESSION_TIMEOUT_MS + REAP_INTERVAL_MS
  /\ (lastOp.kind = "handleSenderCandidate" /\ lastOp.sessionId \in reaped)
       => out = <<>> /\ lastOp.sessionId \notin DOMAIN sessions

\* a candidate arrives for an id whose session was reaped
C7_Witness ==
  /\ lastOp.kind = "handleSenderCandidate"
  /\ lastOp.sessionId \in reaped
  /\ out = <<>>

\* ------------------------------------------------- the bridge's properties

IsWrite(e, type) == e.kind = "write" /\ e.msg.payload.type = type
IsAnswerMessage(msg) ==
  msg.type = Some("webrtc-answer") /\ msg.sessionId # None /\ msg.sdp # None

\* C3: a display webrtc-answer for an existing session stores the answer, sends
\* every buffered sender candidate to the display in insertion order and empties
\* the queue, and only then invokes the answer-ready callback with (sessionId,
\* sdp): every flushed candidate is sent before the ANSWER is written to the
\* Cast sender.
C3_AnswerOrder ==
  [][(/\ lastOp'.kind = "displayMessage"
      /\ IsAnswerMessage(lastOp'.msg)
      /\ lastOp'.msg.sessionId[1] \in DOMAIN sessions)
     => LET sid == lastOp'.msg.sessionId[1]
            sdp == lastOp'.msg.sdp[1]
            pending == sessions[sid].pendingSenderCandidates
            n == Len(pending)
        IN /\ sessions'[sid].answer = Some(sdp)
           /\ sessions'[sid].pendingSenderCandidates = <<>>
           /\ Len(out') = n + (IF sid \in DOMAIN castAnswerCallbacks THEN 2 ELSE 1)
           /\ \A i \in 1..n : out'[i] = SendCommand(IceCommand(sid, pending[i]))
           /\ out'[n + 1] = AnswerReady(sid, sdp)
           /\ sid \in DOMAIN castAnswerCallbacks
                => /\ IsWrite(out'[n + 2], "ANSWER")
                   /\ out'[n + 2].msg.payload.answer = sdp
                   /\ out'[n + 2].conn = castAnswerCallbacks[sid].conn]_vars

\* an answer flushed two candidates and then the ANSWER went to the Cast sender
C3_Witness ==
  /\ lastOp.kind = "displayMessage"
  /\ Len(out) = 4
  /\ IsIceSend(out[1]) /\ IsIceSend(out[2])
  /\ out[3].kind = "answerReady"
  /\ IsWrite(out[4], "ANSWER")

\* C8: reply swap. Every frame a CastV2 session writes (the replies of the
\* namespaces and the ANSWER and ICE_CANDIDATE of an OFFER's closures) has the
\* destinationId of its request as sourceId and the sourceId as destinationId.
C8_ReplySwap ==
  \A i \in Indexes(out) :
    out[i].kind = "write"
      => /\ out[i].msg.sourceId = out[i].req.destinationId
         /\ out[i].msg.destinationId = out[i].req.sourceId

\* an ANSWER written by the closure of an OFFER from sender-1
C8_Witness ==
  \E i \in Indexes(out) :
    /\ IsWrite(out[i], "ANSWER")
    /\ out[i].req.sourceId = "sender-1"
    /\ out[i].msg.destinationId = "sender-1"

\* C9: requestId echo. Every RECEIVER_STATUS, MEDIA_STATUS and CONNECTED carries
\* the requestId of the request being handled, 0 when it has none, and is
\* written on the connection that request arrived on.
C9_RequestIdEcho ==
  \A i \in Indexes(out) :
    (out[i].kind = "write"
       /\ out[i].msg.payload.type \in {"RECEIVER_STATUS", "MEDIA_STATUS", "CONNECTED"})
      => /\ out[i].msg.payload.requestId =
              (IF out[i].req.requestId = None THEN 0 ELSE out[i].req.requestId[1])
         /\ lastOp.kind = "castReceive"
         /\ out[i].conn = lastOp.conn

\* a MEDIA_STATUS for a request without requestId, after a LOAD on the connection
C9_Witness ==
  /\ out # <<>>
  /\ IsWrite(out[1], "MEDIA_STATUS")
  /\ out[1].req.requestId = None
  /\ out[1].msg.payload.requestId = 0
  /\ loads[out[1].conn] = 1
  /\ nCastMsgs = 2

\* C10: within a connection mediaSessionId starts at 1 and is 1 + the number of
\* media LOADs dispatched so far: a LOAD adds exactly 1, its MEDIA_STATUS reports
\* the new value, and no other message changes it.
C10_MediaSessionId ==
  /\ \A c \in DOMAIN conns : conns[c].mediaState.mediaSessionId = 1 + loads[c]
  /\ \A i \in Indexes(out) :
       IsWrite(out[i], "MEDIA_STATUS")
         => out[i].msg.payload.status[1].mediaSessionId = 1 + loads[out[i].conn]

\* a PLAY after a LOAD is answered with the mediaSessionId 2 of the LOAD
C10_Witness ==
  /\ lastOp.kind = "castReceive"
  /\ lastOp.type = Some("PLAY")
  /\ out # <<>>
  /\ IsWrite(out[1], "MEDIA_STATUS")
  /\ out[1].msg.payload.status[1].mediaSessionId = 2

\* C11: session isolation. A message received on one CastV2 connection leaves
\* the media state of every other connection unchanged, every frame it writes
\* goes to its own connection with the requestId of its own request, and two
\* connections never have the same sessionId.
C11_SessionIsolation ==
  [][/\ lastOp'.kind = "castReceive"
        => /\ \A c \in DOMAIN conns \ {lastOp'.conn} : conns'[c] = conns[c]
           /\ \A i \in Indexes(out') :
                out'[i].kind = "write"
                  => /\ out'[i].conn = lastOp'.conn
                     /\ IsWrite(out'[i], "MEDIA_STATUS")
                          => out'[i].msg.payload.requestId =
                               (IF out'[i].req.requestId = None THEN 0
                                ELSE out'[i].req.requestId[1])
     /\ \A c1, c2 \in DOMAIN conns' :
          c1 # c2 => conns'[c1].sessionId # conns'[c2].sessionId]_vars

\* after a LOAD on A, a request on B is answered from B's untouched state
C11_Witness ==
  /\ DOMAIN conns = Conns
  /\ loads["A"] = 1
  /\ conns["A"].mediaState.playerState = "PLAYING"
  /\ lastOp.kind = "castReceive" /\ lastOp.conn = "B"
  /\ out # <<>>
  /\ IsWrite(out[1], "MEDIA_STATUS")
  /\ out[1].msg.payload.status[1].mediaSessionId = 1
  /\ out[1].msg.payload.status[1].playerState = "IDLE"

\* ------------------------------------------------ the framing's properties

\* the bytes of a sequence of frames
RECURSIVE Concat(_)
Concat(frames) == IF frames = <<>> THEN <<>> ELSE Head(frames) \o Concat(Tail(frames))

\* the bytes of connection conn's stream that were delivered to its data handler
DeliveredBytes(conn) ==
  SubSeq(Concat(sentFrames[conn]), 1, Len(Concat(sentFrames[conn])) - Len(wire[conn]))

\* how many of the frames lie wholly within the first nbytes bytes
RECURSIVE WholeFrames(_, _)
WholeFrames(frames, nbytes) ==
  IF frames = <<>> \/ Len(Head(frames)) > nbytes THEN 0
  ELSE 1 + WholeFrames(Tail(frames), nbytes - Len(Head(frames)))

BodyOf(frame) == SubSeq(frame, 5, Len(frame))
\* a frame that holds as many body bytes as its length declares
Complete(frame) == readUInt32BE(frame, 0) = Len(frame) - 4
\* a complete frame whose body is a message
WellFormed(frame) == Complete(frame) /\ ~CastMessageDecode(BodyOf(frame)).threw

\* the bodies of the frames, each with what the read loop has to make of it
Expected(frames) ==
  [i \in 1..Len(frames) |->
     Took(BodyOf(frames[i]),
          IF CastMessageDecode(BodyOf(frames[i])).threw THEN "undecodable"
          ELSE "dispatched")]

\* the unread bytes of the receive buffer
Unread(c) == SubSeq(c.recvBuf, c.recvOffset + 1, Len(c.recvBuf))

\* C12: stream resync. When every frame written so far is well-formed, however
\* the bytes were cut into chunks, the bodies dispatched are exactly the bodies
\* of the frames delivered in full, in order, and the unread part of the receive
\* buffer is exactly the delivered bytes after those frames.
C12_StreamResync ==
  ("A" \in DOMAIN conns /\ \A i \in 1..Len(sentFrames["A"]) : WellFormed(sentFrames["A"][i]))
    => LET frames == sentFrames["A"]
           bytes == DeliveredBytes("A")
           k == WholeFrames(frames, Len(bytes))
       IN /\ consumed["A"] = SubSeq(Expected(frames), 1, k)
          /\ Unread(conns["A"]) =
               SubSeq(bytes, Len(Concat(SubSeq(frames, 1, k))) + 1, Len(bytes))
          /\ ~conns["A"].destroyed

\* three frames were dispatched: the last chunk began inside the length prefix
\* of the second frame and held the rest of it and the whole third frame
C12_Witness ==
  /\ Len(sentFrames["A"]) = 3
  /\ \A i \in 1..3 : WellFormed(sentFrames["A"][i])
  /\ wire["A"] = <<>>
  /\ Len(consumed["A"]) = 3
  /\ \A i \in 1..3 : consumed["A"][i] = Took(BodyOf(sentFrames["A"][i]), "dispatched")
  /\ sentFrames["A"][2] # sentFrames["A"][3]
  /\ lastOp.kind = "castData"
  /\ Len(lastOp.taken) = 2
  /\ lastOp.n = Len(sentFrames["A"][2]) + Len(sentFrames["A"][3]) - 2

\* the frames whose length prefix the read loop meets at its read position and
\* finds above the limit: every frame before them is complete
OversizedAt(frames) ==
  {j \in 1..Len(frames) :
     /\ readUInt32BE(frames[j], 0) > 1048576
     /\ \A i \in 1..(j - 1) : Complete(frames[i])}

\* C13: oversized frame. The socket is destroyed exactly when the 4 length bytes
\* of a frame declaring more than 1 MiB have arrived at the read position; the
\* frames complete before it are taken, and neither it nor any byte after it
\* is ever dispatched. A stream without such a frame, even with a length of
\* exactly 1 MiB, never destroys the socket.
C13_OversizedFrame ==
  "A" \in DOMAIN conns
    => LET frames == sentFrames["A"]
           bytes == DeliveredBytes("A")
           over == OversizedAt(frames)
       IN IF over = {} THEN ~conns["A"].destroyed
          ELSE LET j == CHOOSE x \in over : TRUE
                   before == SubSeq(frames, 1, j - 1)
               IN /\ over = {j}
                  /\ conns["A"].destroyed <=> Len(bytes) >= Len(Concat(before)) + 4
                  /\ consumed["A"] =
                       SubSeq(Expected(before), 1, WholeFrames(before, Len(bytes)))

\* a message, then a length of 1 MiB + 1, then a well-formed frame, all
\* delivered: the socket is destroyed and only the first message was dispatched
C13_Witness ==
  /\ "A" \in DOMAIN conns
  /\ Len(sentFrames["A"]) = 3
  /\ WellFormed(sentFrames["A"][1])
  /\ sentFrames["A"][2] = OversizedPrefix
  /\ WellFormed(sentFrames["A"][3])
  /\ wire["A"] = <<>>
  /\ conns["A"].destroyed
  /\ consumed["A"] = <<Took(BodyOf(sentFrames["A"][1]), "dispatched")>>
  /\ lastOp.kind = "castData" /\ lastOp.taken = <<>>

\* C14: a complete frame whose body is not a protobuf encoding is skipped: when
\* all frames written are complete, the bodies taken are those of the frames
\* delivered in full, in order, the undecodable ones marked as such and every
\* other one dispatched, and the unread bytes are the delivered bytes after
\* them; a chunk that completes only undecodable frames writes nothing, sends
\* no command and changes no state.
C14_DecodeErrorSkipped ==
  [][("A" \in DOMAIN conns' /\ \A i \in 1..Len(sentFrames'["A"]) : Complete(sentFrames'["A"][i]))
       => LET frames == sentFrames'["A"]
              bytes == DeliveredBytes("A")'
              k == WholeFrames(frames, Len(bytes))
          IN /\ consumed'["A"] = SubSeq(Expected(frames), 1, k)
             /\ Unread(conns'["A"]) =
                  SubSeq(bytes, Len(Concat(SubSeq(frames, 1, k))) + 1, Len(bytes))
             /\ (/\ lastOp'.kind = "castData"
                 /\ \A i \in 1..Len(lastOp'.taken) : lastOp'.taken[i].result = "undecodable")
                  => /\ out' = <<>>
                     /\ conns'["A"].mediaState = conns["A"].mediaState
                     /\ conns'["A"].sessionId = conns["A"].sessionId
                     /\ UNCHANGED <<sessions, castAnswerCallbacks, castCandidateCallbacks>>]_vars

\* a LOAD, an undecodable body and a PLAY were taken in this order, the last
\* two from one chunk
C14_Witness ==
  /\ Len(consumed["A"]) = 3
  /\ consumed["A"][1] = Took(<<2, 0>>, "dispatched")
  /\ consumed["A"][2].result = "undecodable"
  /\ consumed["A"][3] = Took(<<1>>, "dispatched")
  /\ lastOp.kind = "castData"
  /\ Len(lastOp.taken) = 2
  /\ Len(out) = 3
  /\ IsWrite(out[1], "MEDIA_STATUS")
  /\ out[1].msg.payload.status[1].mediaSessionId = 2

\* C15: the CastV2 handler never crashes on unrecognized input: whatever the
\* namespace and whatever payloadUtf8 holds (nothing, text that is not JSON, or
\* JSON of any kind), no frame raises an uncaught exception, and frames after it
\* are still processed.
C15_NeverCrashes ==
  /\ ~crashed
  /\ \A c \in Conns : \A i \in 1..Len(consumed[c]) : consumed[c][i].result # "threw"

\* the types each namespace handles
KnownTypes(namespace) ==
  CASE namespace = NS_CONNECTION -> {"CONNECT"}
    [] namespace = NS_HEARTBEAT -> {"PING"}
    [] namespace = NS_RECEIVER -> {"GET_STATUS", "LAUNCH", "STOP"}
    [] namespace = NS_MEDIA -> {"GET_STATUS", "LOAD", "PLAY", "PAUSE", "SEEK", "STOP",
                                "SET_VOLUME", "VOLUME"}
    [] namespace = NS_WEBRTC -> {"OFFER", "ICE_CANDIDATE"}
    [] namespace = NS_REMOTING -> {"SETUP", "START", "STOP"}
    [] OTHER -> {}

Unrecognized(namespace, type) ==
  type = None \/ type[1] \notin KnownTypes(namespace)

\* C16: a message on an unknown namespace, or with an unknown or missing type
\* in a known namespace (connection CLOSE included), writes no reply, sends no
\* external command and leaves the connections, the signaling relay and the
\* orchestrator's callbacks unchanged.
C16_UnknownIgnored ==
  [][(lastOp'.kind = "castReceive" /\ Unrecognized(lastOp'.namespace, lastOp'.type))
       => /\ out' = <<>>
          /\ UNCHANGED <<conns, sessions, castAnswerCallbacks, castCandidateCallbacks>>]_vars

\* an unknown media type on a connection whose OFFER created a session
C16_Witness ==
  /\ lastOp.kind = "castReceive"
  /\ lastOp.namespace = NS_MEDIA
  /\ lastOp.type = Some("QUEUE_NEXT")
  /\ conns[lastOp.conn].sessionId \in DOMAIN sessions
  /\ out = <<>>

\* ------------------------------------------- the media control's properties

\* the external media command type of each media request type
CommandTypeOf(type) ==
  CASE type = "LOAD" -> "load" [] type = "PLAY" -> "play" [] type = "PAUSE" -> "pause"
    [] type = "SEEK" -> "seek" [] type = "STOP" -> "stop"
    [] type \in {"SET_VOLUME", "VOLUME"} -> "volume"

\* the effects of the given kind among out, in order
EffectsOf(effects, kind) == SelectSeq(effects, LAMBDA e : e.kind = kind)

\* C17: media transition table. GET_STATUS changes nothing and emits no
\* command; LOAD sets media, PLAYING and currentTime (payload.currentTime or 0);
\* PLAY sets PLAYING; PAUSE sets PAUSED; SEEK sets currentTime; STOP sets IDLE
\* and no media; SET_VOLUME/VOLUME copies the level and muted it is given. Each
\* is answered by exactly one MEDIA_STATUS showing the state after it, and each
\* but GET_STATUS emits exactly one external media command of its type with the
\* request's requestId.
C17_MediaTable ==
  [][(/\ lastOp'.kind = "castReceive"
      /\ lastOp'.namespace = NS_MEDIA
      /\ lastOp'.type # None
      /\ lastOp'.type[1] \in KnownTypes(NS_MEDIA))
     => LET type == lastOp'.type[1]
            payload == lastOp'.payload
            before == conns[lastOp'.conn].mediaState
            after == conns'[lastOp'.conn].mediaState
            writes == EffectsOf(out', "write")
            calls == EffectsOf(out', "onMediaCommand")
            status == writes[1].msg.payload.status[1]
            time == IF payload.currentTime = None THEN 0 ELSE payload.currentTime[1]
        IN /\ CASE type = "GET_STATUS" -> after = before
                [] type = "LOAD" ->
                     /\ after.media # None
                     /\ after.playerState = "PLAYING"
                     /\ after.currentTime = time
                     /\ after.volume = before.volume
                [] type = "PLAY" -> after = [before EXCEPT !.playerState = "PLAYING"]
                [] type = "PAUSE" -> after = [before EXCEPT !.playerState = "PAUSED"]
                [] type = "SEEK" -> after = [before EXCEPT !.currentTime = time]
                [] type = "STOP" ->
                     after = [before EXCEPT !.playerState = "IDLE", !.media = None]
                [] type \in {"SET_VOLUME", "VOLUME"} ->
                     /\ [after EXCEPT !.volume = before.volume] = before
                     /\ after.volume.level =
                          (IF payload.volume = None \/ payload.volume[1].level = None
                           THEN before.volume.level ELSE payload.volume[1].level[1])
                     /\ after.volume.muted =
                          (IF payload.volume = None \/ payload.volume[1].muted = None
                           THEN before.volume.muted ELSE payload.volume[1].muted[1])
           /\ Len(writes) = 1
           /\ IsWrite(writes[1], "MEDIA_STATUS")
           /\ status.mediaSessionId = after.mediaSessionId
           /\ status.playerState = after.playerState
           /\ status.currentTime = after.currentTime
           /\ status.volume = after.volume
           /\ status.media = after.media
           /\ IF type = "GET_STATUS" THEN calls = <<>>
              ELSE /\ Len(calls) = 1
                   /\ calls[1].cmd.type = CommandTypeOf(type)
                   /\ calls[1].cmd.requestId =
                        (IF payload.requestId = None THEN 0 ELSE payload.requestId[1])]_vars

\* a SET_VOLUME that mutes, after a LOAD: the status shows PLAYING and muted,
\* and one volume command carries the requestId 7
C17_Witness ==
  /\ lastOp.kind = "castReceive"
  /\ lastOp.namespace = NS_MEDIA
  /\ lastOp.type = Some("SET_VOLUME")
  /\ Len(out) >= 2
  /\ IsWrite(out[1], "MEDIA_STATUS")
  /\ out[1].msg.payload.status[1].playerState = "PLAYING"
  /\ out[1].msg.payload.status[1].volume = [level |-> 1, muted |-> TRUE]
  /\ out[2] = MediaCommandCall([MediaCommand("volume", 7) EXCEPT !.volume = Some(1)])

\* C18: receiver STOP sets the connection's media state to IDLE with no media,
\* answers with exactly one RECEIVER_STATUS carrying the request's requestId and
\* emits exactly one external media command {type: stop, requestId}; a media
\* GET_STATUS that follows it reports IDLE and no media; receiver GET_STATUS and
\* LAUNCH change no state and emit no external command.
C18_ReceiverStop ==
  [][/\ (/\ lastOp'.kind = "castReceive"
         /\ lastOp'.namespace = NS_RECEIVER
         /\ lastOp'.type # None
         /\ lastOp'.type[1] \in KnownTypes(NS_RECEIVER))
        => LET before == conns[lastOp'.conn].mediaState
               after == conns'[lastOp'.conn].mediaState
               writes == EffectsOf(out', "write")
               calls == EffectsOf(out', "onMediaCommand")
               requestId == IF lastOp'.payload.requestId = None THEN 0
                            ELSE lastOp'.payload.requestId[1]
           IN /\ Len(writes) = 1
              /\ IsWrite(writes[1], "RECEIVER_STATUS")
              /\ writes[1].msg.payload.requestId = requestId
              /\ IF lastOp'.type[1] = "STOP"
                 THEN /\ after = [before EXCEPT !.playerState = "IDLE", !.media = None]
                      /\ calls = <<MediaCommandCall(MediaCommand("stop", requestId))>>
                 ELSE after = before /\ calls = <<>>
     /\ (/\ lastOp.kind = "castReceive"
         /\ lastOp.namespace = NS_RECEIVER /\ lastOp.type = Some("STOP")
         /\ lastOp'.kind = "castReceive" /\ lastOp'.conn = lastOp.conn
         /\ lastOp'.namespace = NS_MEDIA /\ lastOp'.type = Some("GET_STATUS"))
        => /\ out'[1].msg.payload.status[1].playerState = "IDLE"
           /\ out'[1].msg.payload.status[1].media = None]_vars

\* a receiver STOP after a LOAD: the playing media is gone
C18_Witness ==
  /\ lastOp.kind = "castReceive"
  /\ lastOp.namespace = NS_RECEIVER /\ lastOp.type = Some("STOP")
  /\ loads[lastOp.conn] = 1
  /\ conns[lastOp.conn].mediaState.playerState = "IDLE"
  /\ conns[lastOp.conn].mediaState.media = None
  /\ Len(out) = 3
  /\ IsWrite(out[1], "RECEIVER_STATUS")
  /\ out[2] = MediaCommandCall(MediaCommand("stop", 7))
  /\ out[3] = SendCommand([type |-> "stop"])

\* ------------------------------------------------ the display slot

\* the display slot's holder is open
HolderOpen == tvClient # None /\ wsClients[tvClient[1]].readyState = "OPEN"

\* C19: a new WebSocket connection takes the display slot, and the previous
\* holder, if it is open, is closed by the server; a sendCommand writes to at
\* most one WebSocket, the slot's holder, and never to a displaced one.
C19_LastConnectionWins ==
  [][/\ lastOp'.kind = "wsConnect" =>
          /\ tvClient' = Some(lastOp'.ws)
          /\ wsClients'[lastOp'.ws].readyState = "OPEN"
          /\ HolderOpen => /\ wsClients'[tvClient[1]].readyState = "CLOSING"
                           /\ tvClient[1] \in displaced'
     /\ lastOp'.kind = "sendCommand" =>
          /\ Len(out') <= 1
          /\ \A i \in 1..Len(out') :
               /\ out'[i] = WsSend(tvClient[1], lastOp'.cmd)
               /\ HolderOpen
               /\ out'[i].ws \notin displaced
     /\ \A ws \in displaced : wsReceived'[ws] = wsReceived[ws]]_vars

\* a display was displaced, and a command went to the display that replaced it
C19_Witness ==
  /\ lastOp.kind = "sendCommand"
  /\ \E a \in displaced : \E b \in WebSockets \ displaced :
       /\ tvClient = Some(b)
       /\ out = <<WsSend(b, lastOp.cmd)>>
       /\ wsClients[a].readyState = "CLOSING"

\* C20: a sendCommand while the display slot is empty or its holder is not
\* open writes nothing and changes nothing of the server; a command reaches a
\* WebSocket only in the step that issues it, and only a WebSocket connected
\* by then, so no later display receives an earlier command.
C20_DroppedSilently ==
  [][/\ lastOp'.kind = "sendCommand" /\ ~HolderOpen =>
          /\ out' = <<>>
          /\ UNCHANGED <<tvClient, wsClients, senderClients, wsReceived>>
     /\ \A ws \in WebSockets :
          wsReceived'[ws] # wsReceived[ws] =>
            /\ lastOp'.kind = "sendCommand"
            /\ ws \in DOMAIN wsClients
            /\ wsReceived'[ws] = Append(wsReceived[ws], WsSend(ws, lastOp'.cmd))]_vars

\* the first command was dropped, and a display received the second only
C20_Witness ==
  /\ lastOp.kind = "sendCommand"
  /\ lastOp.cmd = 2
  /\ \E ws \in WebSockets : wsReceived[ws] = <<WsSend(ws, 2)>>
  /\ \A ws \in WebSockets : \A i \in 1..Len(wsReceived[ws]) : wsReceived[ws][i].cmd # 1

\* the parsed message of a text, when the handler gets as far as reading it
Parsed(text) == JsonParse(Some(text))
Readable(text) == ~Parsed(text).threw /\ ~PropertyReadThrows(Parsed(text).value)

\* the text is a sender-hello with a sessionId
IsSenderHello(text) ==
  /\ Readable(text)
  /\ Parsed(text).value.kind = "object"
  /\ Parsed(text).value.fields.type = Some("sender-hello")
  /\ Parsed(text).value.fields.sessionId # None

\* C21: a sender-hello with a sessionId makes its connection a sender, indexed
\* under that id; the display slot is emptied exactly when it held this
\* connection, and the hello reaches no callback. A sender's later messages go
\* to the sender-message callbacks, never to the status callbacks, and a
\* sender never becomes the display again.
C21_SenderHello ==
  [][/\ lastOp'.kind = "wsMessage" /\ IsSenderHello(lastOp'.text) =>
          LET ws == lastOp'.ws
              id == Parsed(lastOp'.text).value.fields.sessionId
          IN /\ wsClients'[ws].role = "sender"
             /\ wsClients'[ws].senderId = id
             /\ id[1] \in DOMAIN senderClients' /\ senderClients'[id[1]] = ws
             /\ tvClient' = (IF tvClient = Some(ws) THEN None ELSE tvClient)
             /\ out' = <<>>
     /\ lastOp'.kind = "wsMessage" /\ wsClients[lastOp'.ws].role = "sender"
          /\ ~IsSenderHello(lastOp'.text) =>
          out' = IF Readable(lastOp'.text)
                 THEN <<SenderMessageCallbacks(Parsed(lastOp'.text).value)>>
                 ELSE <<>>
     /\ \A ws \in DOMAIN wsClients :
          wsClients[ws].role = "sender" =>
            /\ wsClients'[ws].role = "sender"
            /\ tvClient' # Some(ws)]_vars

\* a connection that did not hold the slot said hello, the slot kept its
\* holder, and the sender's next message went to the sender-message callbacks
C21_Witness ==
  /\ lastOp.kind = "wsMessage"
  /\ wsClients[lastOp.ws].role = "sender"
  /\ "s1" \in DOMAIN senderClients /\ senderClients["s1"] = lastOp.ws
  /\ Len(out) = 1 /\ out[1].kind = "senderMessageCallbacks"
  /\ tvClient # None /\ tvClient # Some(lastOp.ws)

\* ------------------------------------------------------ the heartbeat

\* C22: at a tick, a WebSocket that connected or sent a pong since the tick
\* before is not terminated: it is pinged and left as it was. In particular
\* a WebSocket is not terminated at the first tick after it connected.
C22_ResponsiveKept ==
  [][lastOp'.kind = "pingTick" =>
       \A ws \in WssClients(wsClients) \cap responded :
         /\ wsClients'[ws] = wsClients[ws]
         /\ Terminate(ws) \notin Range(out')
         /\ PingFrame(ws) \in Range(out')]_vars

\* a WebSocket answered its first ping and was pinged again, still open
C22_Witness ==
  /\ lastOp.kind = "pingTick"
  /\ \E ws \in DOMAIN wsClients :
       /\ pingsSent[ws] = 2
       /\ PingFrame(ws) \in Range(out)
       /\ wsClients[ws].readyState = "OPEN"
       /\ ~wsClients[ws].destroyed

\* C23: at a tick, a WebSocket that has sent no pong (and did not connect)
\* since the tick before is terminated and not pinged, and a terminated
\* WebSocket is never pinged; after its close event it does not hold the
\* display slot, and no command is written to a WebSocket that is not open.
C23_ZombieTerminated ==
  [][/\ lastOp'.kind = "pingTick" =>
          \A ws \in WssClients(wsClients) \ responded :
            /\ wsClients'[ws].readyState = "CLOSING"
            /\ wsClients'[ws].destroyed
            /\ Terminate(ws) \in Range(out')
            /\ PingFrame(ws) \notin Range(out')
     /\ \A ws \in DOMAIN wsClients :
          wsClients[ws].destroyed =>
            /\ wsClients'[ws].destroyed
            /\ PingFrame(ws) \notin Range(out')
     /\ lastOp'.kind = "wsClose" => tvClient' # Some(lastOp'.ws)
     /\ lastOp'.kind = "sendCommand" =>
          \A i \in 1..Len(out') :
            out'[i].kind = "wsSend" =>
              /\ wsClients[out'[i].ws].readyState = "OPEN"
              /\ ~wsClients[out'[i].ws].destroyed]_vars

\* a display was pinged, sent no pong, was terminated and closed, and the
\* command that followed was dropped
C23_Witness ==
  /\ lastOp.kind = "sendCommand"
  /\ out = <<>>
  /\ tvClient = None
  /\ \E ws \in DOMAIN wsClients :
       /\ wsClients[ws].role = "tv"
       /\ pingsSent[ws] = 1
       /\ wsClients[ws].destroyed
       /\ wsClients[ws].readyState = "CLOSED"

\* ------------------------------------- the orchestrator's properties

\* the frames of the given type among the effects
WritesOf(effects, type) == SelectSeq(effects, LAMBDA e : IsWrite(e, type))

\* the step dispatched an OFFER received on a CastV2 connection
IsOfferStep(op) ==
  op.kind = "castReceive" /\ op.namespace = NS_WEBRTC /\ op.type = Some("OFFER")

\* C24: an ANSWER is written to a CastV2 connection only by a display
\* webrtc-answer that finds the castAnswerCallbacks entry of its session;
\* that answer writes exactly one ANSWER, to the connection of the session,
\* and removes the entry, so a second answer writes none; only an OFFER on the
\* connection of the session puts the entry back.
C24_OneShotAnswer ==
  [][/\ WritesOf(out', "ANSWER") # <<>> =>
          /\ lastOp'.kind = "displayMessage"
          /\ IsAnswerMessage(lastOp'.msg)
     /\ lastOp'.kind = "displayMessage" /\ IsAnswerMessage(lastOp'.msg) =>
          LET sid == lastOp'.msg.sessionId[1]
              written == WritesOf(out', "ANSWER")
          IN /\ sid \notin DOMAIN castAnswerCallbacks'
             /\ Len(written) = (IF sid \in DOMAIN castAnswerCallbacks THEN 1 ELSE 0)
             /\ \A i \in 1..Len(written) :
                  /\ written[i].conn \in DOMAIN conns
                  /\ conns[written[i].conn].sessionId = sid
     /\ \A sid \in DOMAIN castAnswerCallbacks' \ DOMAIN castAnswerCallbacks :
          /\ IsOfferStep(lastOp')
          /\ conns[lastOp'.conn].sessionId = sid]_vars

\* a second answer for a Cast session whose entry the first one consumed
C24_Witness ==
  /\ lastOp.kind = "displayMessage"
  /\ IsAnswerMessage(lastOp.msg)
  /\ WritesOf(out, "ANSWER") = <<>>
  /\ LET sid == lastOp.msg.sessionId[1]
     IN /\ sid \in DOMAIN sessions
        /\ sessions[sid].source = "cast"
        /\ sid \in DOMAIN castCandidateCallbacks
        /\ sid \notin DOMAIN castAnswerCallbacks

\* the step dispatched a remoting STOP received on a CastV2 connection
IsStopStep(op) ==
  op.kind = "castReceive" /\ op.namespace = NS_REMOTING /\ op.type = Some("STOP")

\* the step handed the relay a sender candidate for session sid
IsSenderCandidateStep(op, sid) ==
  \/ op.kind = "handleSenderCandidate" /\ op.sessionId = sid
  \/ /\ op.kind = "castReceive" /\ op.namespace = NS_WEBRTC
     /\ op.type = Some("ICE_CANDIDATE") /\ op.payload.candidate # None
     /\ conns[op.conn].sessionId = sid

\* the step handled a display webrtc-answer or ice-candidate for session sid
IsDisplaySignalStep(op, sid) ==
  /\ op.kind = "displayMessage"
  /\ op.msg.sessionId = Some(sid)
  /\ \/ IsAnswerMessage(op.msg)
     \/ op.msg.type = Some("ice-candidate") /\ op.msg.candidate # None

C26_DisconnectCleanup ==
  [][/\ lastOp'.kind = "castDisconnect" =>
          LET sid == conns[lastOp'.conn].sessionId
          IN /\ sid \notin DOMAIN sessions'
             /\ sid \notin DOMAIN castAnswerCallbacks'
             /\ sid \notin DOMAIN castCandidateCallbacks'
     /\ \A i \in 1..Len(out') :
          out'[i].kind = "write" => ~conns[out'[i].conn].destroyed]_vars

\* ------------------------------------------- the relay's input checks

\* the message lacks its type, or a field its type requires
Malformed(msg) ==
  \/ msg.type = None
  \/ msg.type = Some("webrtc-answer") /\ (msg.sessionId = None \/ msg.sdp = None)
  \/ msg.type = Some("ice-candidate") /\ (msg.sessionId = None \/ msg.candidate = None)

\* C27: a display message that is null, not an object, without type, a
\* webrtc-answer without sessionId or sdp, or an ice-candidate without
\* sessionId or candidate: no callback fires, nothing is sent to the display,
\* and the sessions (lastActivity included) stay as they are.
C27_MalformedIgnored ==
  [][(\/ lastOp'.kind = "displayValue"
      \/ lastOp'.kind = "displayMessage" /\ Malformed(lastOp'.msg))
     => /\ out' = <<>>
        /\ UNCHANGED <<sessions, castAnswerCallbacks, castCandidateCallbacks,
                       accepted, delivered>>]_vars

\* a webrtc-answer without sdp for a session that holds a candidate and was
\* last active earlier
C27_Witness ==
  /\ lastOp.kind = "displayMessage"
  /\ lastOp.msg.type = Some("webrtc-answer")
  /\ lastOp.msg.sdp = None
  /\ lastOp.msg.sessionId # None
  /\ LET sid == lastOp.msg.sessionId[1]
     IN /\ sid \in DOMAIN sessions
        /\ sessions[sid].pendingSenderCandidates # <<>>
        /\ sessions[sid].answer = None
        /\ sessions[sid].lastActivity < now
  /\ out = <<>>

\* ------------------------------------------- the media relay's properties

\* C28: a media command of type load, play, pause, seek, stop or volume makes
\* exactly one sendCommand, of the display's shape for its type, with url '',
\* contentType 'video/mp4', currentTime 0 and level 1 for the fields that are
\* missing; the display's command has no requestId, and a command of another
\* type sends nothing.
C28_RelayTranslation ==
  lastOp.kind = "onMediaCommand" =>
    LET cmd == lastOp.cmd
    IN CASE cmd.type = "load" ->
              out = <<SendCommand([type |-> "load", url |-> OrElse(cmd.url, ""),
                                   contentType |-> OrElse(cmd.contentType, "video/mp4")])>>
         [] cmd.type = "play" -> out = <<SendCommand([type |-> "play"])>>
         [] cmd.type = "pause" -> out = <<SendCommand([type |-> "pause"])>>
         [] cmd.type = "seek" ->
              out = <<SendCommand([type |-> "seek",
                                   currentTime |-> OrElse(cmd.currentTime, 0)])>>
         [] cmd.type = "stop" -> out = <<SendCommand([type |-> "stop"])>>
         [] cmd.type = "volume" ->
              out = <<SendCommand([type |-> "volume", level |-> OrElse(cmd.volume, 1)])>>
         [] OTHER -> out = <<>>

\* a volume command with volume 0 and requestId 7 became {volume, level 0}
C28_Witness ==
  /\ lastOp.kind = "onMediaCommand"
  /\ lastOp.cmd.type = "volume"
  /\ lastOp.cmd.volume = Some(0)
  /\ lastOp.cmd.requestId = 7
  /\ out = <<SendCommand([type |-> "volume", level |-> 0])>>
  /\ "requestId" \notin DOMAIN out[1].cmd

\* a session without its lastActivity
Untimed(session) == [session EXCEPT !.lastActivity = 0]

\* C29: a handleOffer for a sessionId that has a session keeps the session
\* map's keys and the other sessions, stores the sdp as the session's offer,
\* and leaves its source, answer and pending candidates as they were; with
\* the sdp the session already stores, the session is as before apart from
\* lastActivity. Every call sends one webrtc-offer to the display.
C29_OfferIdempotent ==
  [][lastOp'.kind = "handleOffer" =>
       LET sid == lastOp'.sessionId
           sdp == lastOp'.sdp
       IN /\ out' = <<SendCommand(OfferCommand(sid, sdp))>>
          /\ sid \in DOMAIN sessions'
          /\ sessions'[sid].offer = Some(sdp)
          /\ sid \in DOMAIN sessions =>
               /\ DOMAIN sessions' = DOMAIN sessions
               /\ \A other \in DOMAIN sessions \ {sid} : sessions'[other] = sessions[other]
               /\ sessions'[sid].source = sessions[sid].source
               /\ sessions'[sid].answer = sessions[sid].answer
               /\ sessions'[sid].pendingSenderCandidates
                    = sessions[sid].pendingSenderCandidates
               /\ sessions[sid].offer = Some(sdp) =>
                    Untimed(sessions'[sid]) = Untimed(sessions[sid])]_vars

\* an offer repeated for a custom sender's session that holds an answer
C29_Witness ==
  /\ lastOp.kind = "handleOffer"
  /\ lastOp.sdp = "sdpB"
  /\ lastOp.sessionId \in DOMAIN sessions
  /\ sessions[lastOp.sessionId].offer = Some("sdpB")
  /\ sessions[lastOp.sessionId].answer = Some("sdpA")
  /\ sessions[lastOp.sessionId].source = "custom"
  /\ out = <<SendCommand(OfferCommand(lastOp.sessionId, "sdpB"))>>

\* the entries of a callback map are those of the OFFER steps: an OFFER on
\* connection conn sets the entry of conn's session to closures on conn with
\* the OFFER's seqNum (0 without one), and no other step changes an entry
EntriesFollowOffers(cbs, cbsAfter, op) ==
  /\ IsOfferStep(op) =>
       LET sid == conns[op.conn].sessionId
       IN /\ sid \in DOMAIN cbsAfter
          /\ cbsAfter[sid].conn = op.conn
          /\ cbsAfter[sid].seqNum = OrElse(op.payload.seqNum, 0)
  /\ \A sid \in DOMAIN cbsAfter :
       (IsOfferStep(op) /\ conns[op.conn].sessionId = sid)
         \/ (sid \in DOMAIN cbs /\ cbsAfter[sid] = cbs[sid])

\* the frames written to CastV2 connections among the effects
Writes(effects) == SelectSeq(effects, LAMBDA e : e.kind = "write")

\* C30: a display webrtc-answer or ice-candidate for session s writes at most
\* one frame, an ANSWER or an ICE_CANDIDATE on the webrtc namespace, to the
\* connection whose sessionId is s, with the seqNum of the last OFFER received
\* on that connection, 0 when it had none.
C30_SignalingRouting ==
  [][/\ EntriesFollowOffers(castAnswerCallbacks, castAnswerCallbacks', lastOp')
     /\ EntriesFollowOffers(castCandidateCallbacks, castCandidateCallbacks', lastOp')
     /\ \A sid \in SessionIds :
          IsDisplaySignalStep(lastOp', sid) =>
            LET answer == IsAnswerMessage(lastOp'.msg)
                cbs == IF answer THEN castAnswerCallbacks ELSE castCandidateCallbacks
                written == Writes(out')
            IN /\ Len(written) = (IF sid \in DOMAIN cbs THEN 1 ELSE 0)
               /\ \A i \in 1..Len(written) :
                    /\ written[i].conn \in DOMAIN conns
                    /\ conns[written[i].conn].sessionId = sid
                    /\ written[i].conn = cbs[sid].conn
                    /\ written[i].msg.namespace = NS_WEBRTC
                    /\ written[i].msg.payload.type
                         = (IF answer THEN "ANSWER" ELSE "ICE_CANDIDATE")
                    /\ written[i].msg.payload.seqNum = cbs[sid].seqNum]_vars

\* two connections sent an OFFER, with seqNum 3 and without; the display's
\* answer for the second session went to the second connection, with seqNum 0
C30_Witness ==
  /\ lastOp.kind = "displayMessage"
  /\ IsAnswerMessage(lastOp.msg)
  /\ lastOp.msg.sessionId = Some("s2")
  /\ Writes(out) # <<>>
  /\ Writes(out)[1].conn = "B"
  /\ Writes(out)[1].msg.payload.seqNum = 0
  /\ "s1" \in DOMAIN castAnswerCallbacks
  /\ castAnswerCallbacks["s1"].conn = "A"
  /\ castAnswerCallbacks["s1"].seqNum = 3

\* ------------------------------------------- ordered delivery, per offer

\* C31: once a webrtc-offer of a session went to the display, no sender
\* candidate handled after it is sent to the display before the display
\* answered that offer, also when the session holds the answer to an
\* earlier offer; such a candidate is buffered.
C31_OrderedPerOffer ==
  [][\A sid \in SessionIds :
       (/\ lastOp'.kind = "handleSenderCandidate"
        /\ lastOp'.sessionId = sid
        /\ sid \in awaiting)
       => /\ CandidatesSent(out', sid) = <<>>
          /\ sessions'[sid].pendingSenderCandidates =
               Append(sessions[sid].pendingSenderCandidates, lastOp'.candidate)]_vars

\* ------------------------------------- the provisional slot of a sender

\* C32: a display holds the slot, a second connection arrives (which closes
\* the display and takes the slot) and sends sender-hello: after the hello
\* the display is still open and holds the slot, so that the sender's next
\* webrtc-offer reaches it.
C32_ProvisionalBenign ==
  [][\A d \in WebSockets :
       (/\ lastOp'.kind = "wsMessage"
        /\ IsSenderHello(lastOp'.text)
        /\ tvClient = Some(lastOp'.ws)
        /\ DOMAIN wsClients = {d, lastOp'.ws}
        /\ d \in displaced)
       => /\ tvClient' = Some(d)
          /\ wsClients'[d].readyState = "OPEN"]_vars

\* ------------------------------------ the lifetime of candidate callbacks

\* the messages that register and remove a session's callbacks
LifetimeMessages ==
  {m \in MessagesOf({<<NS_WEBRTC, Some("OFFER")>>, <<NS_WEBRTC, Some("ICE_CANDIDATE")>>,
                     <<NS_REMOTING, Some("STOP")>>}) : m.sourceId = "sender-0"}

NextLifetime ==
  \/ \E conn \in Conns : CastAccept(conn)
  \/ \E conn \in Conns : \E m \in LifetimeMessages : CastReceive(conn, m)
  \/ Advance
  \/ ReapTick

\* the bridge with mirroring senders while time passes and the reaper runs
SpecLifetime == Init /\ [][NextLifetime]_vars

\* C33: castCandidateCallbacks holds an entry for a session id only while the
\* relay holds a session of that id: the entry comes with the OFFER and is
\* gone once closeSession or the reaper removed the session.
C33_CallbacksWithSession ==
  \A sid \in DOMAIN castCandidateCallbacks : sid \in DOMAIN sessions

\* --------------------------------- custom senders over the WebSocket server

\* index.ts: the callback given to wsServer.onSenderMessage
onSenderMessage(ss, value, t) ==
  LET msg == IF value.kind = "object" THEN value.fields
             ELSE DisplayMsg(None, None, None, None)
  IN IF msg.type = Some("webrtc-offer") /\ msg.sessionId # None /\ msg.sdp # None
     THEN handleOffer(ss, msg.sessionId[1], msg.sdp[1], "custom", t)
     ELSE IF msg.type = Some("ice-candidate") /\ msg.sessionId # None
             /\ msg.candidate # None
     THEN handleSenderCandidate(ss, msg.sessionId[1], msg.candidate[1], t)
     ELSE [sessions |-> ss, effects |-> <<>>]

\* the callbacks the message handler called: the relay's onStatusUpdate
\* handler for a display message, the onSenderMessage callback for a sender's
onWsCallbacks(ss, answerCbs, candidateCbs, called, t) ==
  IF called = <<>>
  THEN [sessions |-> ss, castAnswerCallbacks |-> answerCbs, effects |-> <<>>]
  ELSE IF called[1].kind = "statusCallbacks"
  THEN onStatusValue(ss, answerCbs, candidateCbs, called[1].msg, t)
  ELSE LET r == onSenderMessage(ss, called[1].msg, t)
       IN [sessions |-> r.sessions, castAnswerCallbacks |-> answerCbs,
           effects |-> r.effects]

\* the effects with, after each wsServer.sendCommand, what it wrote
RECURSIVE WithWrites(_, _, _)
WithWrites(tv, clients, effects) ==
  IF effects = <<>> THEN <<>>
  ELSE <<Head(effects)>>
       \o (IF Head(effects).kind = "sendCommand"
           THEN sendCommand(tv, clients, Head(effects).cmd) ELSE <<>>)
       \o WithWrites(tv, clients, Tail(effects))

\* the WebSockets and the texts of a display and a custom sender
CustomSockets == {"w1", "w2"}
CustomTexts ==
  {JsonText(JsonObject(DisplayMsg(Some("sender-hello"), Some("s1"), None, None))),
   JsonText(JsonObject(DisplayMsg(Some("webrtc-offer"), Some("s1"), Some("sdpA"), None))),
   JsonText(JsonObject(DisplayMsg(Some("webrtc-answer"), Some("s1"), Some("sdpB"), None))),
   JsonText(JsonObject(DisplayMsg(Some("ice-candidate"), Some("s1"), None, Some("dc1"))))}

\* a client's message arrives at the bridge: the message handler of the
\* WebSocket server, the callback it calls, and every sendCommand of that
\* callback; the candidate of a sender's ice-candidate is a new object
WsBridgeMessage(ws, text) ==
  /\ ws \in DOMAIN wsClients
  /\ wsClients[ws].readyState \in {"OPEN", "CLOSING"}
  /\ ~wsClients[ws].destroyed
  /\ LET r == onMessage(tvClient, wsClients, senderClients, ws, text)
         fresh == /\ r.effects # <<>>
                  /\ r.effects[1].kind = "senderMessageCallbacks"
                  /\ text.value.fields.type = Some("ice-candidate")
         called == IF fresh
                   THEN <<SenderMessageCallbacks(JsonObject(
                            [text.value.fields EXCEPT !.candidate = Some(nCands + 1)]))>>
                   ELSE r.effects
         d == onWsCallbacks(sessions, castAnswerCallbacks, castCandidateCallbacks,
                            called, now)
         all == called \o WithWrites(r.tvClient, r.wsClients, d.effects)
         sid == text.value.fields.sessionId[1]
         written == [w \in WebSockets |->
                       SelectSeq(all, LAMBDA e : e.kind = "wsSend" /\ e.ws = w)]
     IN /\ fresh => nCands < MaxCands
        /\ \A w \in WebSockets : Len(wsReceived[w]) + Len(written[w]) <= MaxWrites
        /\ tvClient' = r.tvClient
        /\ wsClients' = r.wsClients
        /\ senderClients' = r.senderClients
        /\ wsReceived' = [w \in WebSockets |-> wsReceived[w] \o written[w]]
        /\ sessions' = d.sessions
        /\ castAnswerCallbacks' = d.castAnswerCallbacks
        /\ Ran([kind |-> "wsMessage", ws |-> ws, text |-> text], all,
               IF fresh /\ sid \in DOMAIN sessions
               THEN [x \in {sid} |-> <<nCands + 1>>] ELSE NoneTaken)
        /\ nCands' = IF fresh THEN nCands + 1 ELSE nCands
        /\ reaped' = reaped \ OffersSent(d.effects)
  /\ UNCHANGED <<now, nextReap, nOps, castCandidateCallbacks, castVars, displaced,
                 nWsCmds, pingVars>>

NextCustom ==
  \/ \E ws \in CustomSockets : WsConnect(ws)
  \/ \E ws \in CustomSockets : \E text \in CustomTexts : WsBridgeMessage(ws, text)
  \/ \E ws \in CustomSockets : WsClose(ws)

\* the bridge with a display and custom senders on its WebSocket server
SpecCustom == Init /\ [][NextCustom]_vars

\* every event that is due is handled
SpecCustomFair == SpecCustom /\ WF_vars(NextCustom)

\* a command of the given type was written to the open sender indexed under
\* sid, or no open sender is indexed under it
SenderGot(sid, type) ==
  \/ sid \notin DOMAIN senderClients
  \/ wsClients[senderClients[sid]].readyState # "OPEN"
  \/ \E i \in 1..Len(wsReceived[senderClients[sid]]) :
       wsReceived[senderClients[sid]][i].cmd.type = type

\* the display's message of the given kind for the custom session sid was
\* just dispatched while an open sender is indexed under sid
DisplaySignalled(sid, kind) ==
  /\ lastOp.kind = "wsMessage"
  /\ \E i \in 1..Len(out) : out[i].kind = kind /\ out[i].sessionId = sid
  /\ sid \in DOMAIN sessions
  /\ sessions[sid].source = "custom"
  /\ sessions[sid].offer # None
  /\ sid \in DOMAIN senderClients
  /\ wsClients[senderClients[sid]].readyState = "OPEN"

\* C34: for a session that the webrtc-offer of a WebSocket sender created,
\* the sender being registered under the session's id, a webrtc-answer of
\* the display, and each of its ice-candidates, is eventually written to
\* the sender's connection.
C34_AnswerReturnPath ==
  \A sid \in SessionIds :
    /\ DisplaySignalled(sid, "answerReady") ~> SenderGot(sid, "webrtc-answer")
    /\ DisplaySignalled(sid, "displayCandidate") ~> SenderGot(sid, "ice-candidate")

\* ------------------------------------------- the queue and the answer

\* C35: a session that has a stored answer has an empty pending candidate
\* queue: candidates are queued only while the session has no answer, and
\* the queue is emptied when the answer is stored.
C35_AnsweredQueueEmpty ==
  \A sid \in DOMAIN sessions :
    sessions[sid].answer # None => sessions[sid].pendingSenderCandidates = <<>>

\* an answer flushed a session's two buffered candidates and its queue is empty
C35_Witness ==
  /\ lastOp.kind = "displayMessage"
  /\ \E sid \in DOMAIN sessions :
       /\ lastOp.msg.sessionId = Some(sid)
       /\ sessions[sid].answer # None
       /\ Len(CandidatesSent(out, sid)) = 2
       /\ sessions[sid].pendingSenderCandidates = <<>>

\* ------------------------------------------------ exactly-once forwarding

\* the session the exactly-once runs are about
OnceSession == "s1"

NextOnce ==
  \/ HandleOffer(OnceSession, "sdpA", "cast")
  \/ HandleSenderCandidate(OnceSession)
  \/ DisplayMessage(DisplayMsg(Some("webrtc-answer"), Some(OnceSession), Some("sdpA"), None))
  \/ CloseSession(OnceSession)
  \/ Advance
  \/ ReapTick

\* one session of the relay under offers, candidates, answers, closeSession
\* and the reaper, any number of each
SpecOnce == Init /\ [][NextOnce]_vars

NoRepeat(seq) == \A i, j \in 1..Len(seq) : seq[i] = seq[j] => i = j

\* C36: each candidate handleSenderCandidate accepted is handed to
\* sendCommand at most once: a candidate is sent either when it arrives or
\* when it leaves the queue, never after it was sent or dropped, and nothing
\* enters the queue but the arriving candidate; and exactly once if its
\* session gets an answer before it is closed or reaped: all the candidates
\* of a session that has an answer have been sent.
C36_ExactlyOnce ==
  [][\A sid \in SessionIds :
       LET sent == CandidatesSent(out', sid)
           new == IF lastOp'.kind = "handleSenderCandidate" /\ lastOp'.sessionId = sid
                  THEN {lastOp'.candidate} ELSE {}
           before == IF sid \in DOMAIN sessions
                     THEN sessions[sid].pendingSenderCandidates ELSE <<>>
           after == IF sid \in DOMAIN sessions'
                    THEN sessions'[sid].pendingSenderCandidates ELSE <<>>
       IN /\ NoRepeat(sent)
          /\ \A i \in 1..Len(sent) :
               /\ sent[i] \in new \cup Range(before)
               /\ sent[i] \notin Range(after)
               /\ sent[i] \notin Range(delivered[sid]) \cup dropped
          /\ NoRepeat(after)
          /\ Range(after) \subseteq Range(before) \cup new
          /\ (sid \in DOMAIN sessions' /\ sessions'[sid].answer # None)
               => delivered'[sid] = accepted'[sid]]_vars

\* the display repeated its answer after the first one flushed two candidates:
\* nothing was sent again
C36_Witness ==
  /\ lastOp.kind = "displayMessage"
  /\ out = <<AnswerReady(OnceSession, "sdpA")>>
  /\ Len(delivered[OnceSession]) = 2
  /\ delivered[OnceSession] = accepted[OnceSession]
  /\ now > 0

\* ----------------------------------------------- senders and the slot

\* C37: the display slot is empty or holds a connection whose role is still
\* 'tv'; a connection reclassified as a sender never holds the slot and no
\* sendCommand writes to it.
C37_SlotHoldsDisplay ==
  [][/\ tvClient' # None => wsClients'[tvClient'[1]].role = "tv"
     /\ \A ws \in DOMAIN wsClients :
          wsClients[ws].role = "sender" =>
            /\ tvClient' # Some(ws)
            /\ wsReceived'[ws] = wsReceived[ws]
            /\ \A i \in 1..Len(out') : out'[i].kind = "wsSend" => out'[i].ws # ws]_vars

\* a connection received the first command while it held the slot, sent its
\* sender-hello, and the second command went to the display that holds the slot
C37_Witness ==
  /\ lastOp.kind = "sendCommand"
  /\ \E a, b \in DOMAIN wsClients :
       /\ wsClients[a].role = "sender"
       /\ wsClients[a].readyState = "OPEN"
       /\ wsReceived[a] = <<WsSend(a, 1)>>
       /\ tvClient = Some(b)
       /\ out = <<WsSend(b, 2)>>

\* ------------------------------------------- references after a close

\* ws is an open sender indexed in the sender map under the id it announced
Indexed(clients, senders, ws) ==
  /\ clients[ws].readyState = "OPEN"
  /\ clients[ws].role = "sender"
  /\ clients[ws].senderId # None
  /\ clients[ws].senderId[1] \in DOMAIN senders
  /\ senders[clients[ws].senderId[1]] = ws

\* C38: once the close event of a WebSocket was processed, neither the
\* display slot nor an entry of the sender map refers to it, and the close
\* leaves every other open sender indexed under the id it announced, also
\* when two connections announced the same id.
C38_NoDanglingAfterClose ==
  [][/\ \A ws \in DOMAIN wsClients' :
          wsClients'[ws].readyState = "CLOSED" =>
            /\ tvClient' # Some(ws)
            /\ \A id \in DOMAIN senderClients' : senderClients'[id] # ws
     /\ lastOp'.kind = "wsClose" =>
          \A o \in DOMAIN wsClients \ {lastOp'.ws} :
            Indexed(wsClients, senderClients, o) => Indexed(wsClients', senderClients', o)]_vars

\* ------------------------------------------------- IDLE means no media

\* C39: in the media state of every connection playerState = IDLE implies
\* media = null, so no MEDIA_STATUS reports IDLE with a media sub-object; and
\* the media sub-object is in a MEDIA_STATUS exactly when a LOAD was
\* processed on the connection with no media STOP or receiver STOP after it:
\* a LOAD sets the media, either STOP removes it, no other message changes
\* it, and a MEDIA_STATUS carries the media the connection then has.
C39_IdleWithoutMedia ==
  [][/\ \A conn \in DOMAIN conns' :
          conns'[conn].mediaState.playerState = "IDLE"
            => conns'[conn].mediaState.media = None
     /\ lastOp'.kind = "castReceive" =>
          LET conn == lastOp'.conn
              before == conns[conn].mediaState.media
              after == conns'[conn].mediaState.media
              writes == EffectsOf(out', "write")
              isStop == /\ lastOp'.namespace \in {NS_MEDIA, NS_RECEIVER}
                        /\ lastOp'.type = Some("STOP")
              isLoad == lastOp'.namespace = NS_MEDIA /\ lastOp'.type = Some("LOAD")
          IN /\ isLoad => after # None
             /\ isStop => after = None
             /\ ~isLoad /\ ~isStop => after = before
             /\ \A other \in DOMAIN conns \ {conn} :
                  conns'[other].mediaState.media = conns[other].mediaState.media
             /\ \A i \in 1..Len(writes) :
                  IsWrite(writes[i], "MEDIA_STATUS") =>
                    LET entry == writes[i].msg.payload.status[1]
                    IN /\ entry.media = after
                       /\ entry.playerState = "IDLE" => entry.media = None]_vars

\* a media STOP after a LOAD on the connection: the MEDIA_STATUS reports
\* IDLE and no media
C39_Witness ==
  /\ lastOp.kind = "castReceive"
  /\ lastOp.namespace = NS_MEDIA
  /\ lastOp.type = Some("STOP")
  /\ loads[lastOp.conn] = 1
  /\ \E i \in 1..Len(out) :
       /\ IsWrite(out[i], "MEDIA_STATUS")
       /\ out[i].msg.payload.status[1].playerState = "IDLE"
       /\ out[i].msg.payload.status[1].media = None

\* --------------------------------------- whose messages are the display's

\* C40: the status callbacks are called only for a message of the connection
\* that holds the display slot; a message of a connection that was displaced
\* from the slot is not dispatched as a display message.
C40_StatusFromSlotHolder ==
  [][\A i \in 1..Len(out') :
       out'[i].kind = "statusCallbacks" =>
         /\ lastOp'.kind = "wsMessage"
         /\ tvClient = Some(lastOp'.ws)
         /\ lastOp'.ws \notin displaced]_vars

============================================================================
